---- MODULE Spec2Model ----
(***************************************************************************)
(* pizone: the discovery service, the per-controller connection health     *)
(* state machine and the controller / zone device model, as a state        *)
(* machine.  One action is one run of a handler or of a coroutine between   *)
(* two suspension points of the asyncio event loop.                         *)
(***************************************************************************)
EXTENDS Integers, Sequences, FiniteSets, Bags, TLC

(* ------------------------------ bounds --------------------------------- *)

\* Controller objects that exist at the same time.
MaxCtrl == 2
\* Initializations (Controller._initialize) in flight at the same time.
MaxInits == 2
\* Refresh tasks (_retry_connection, _wrap_update) in flight at the same time.
MaxTasks == 2
\* Refresh tasks in flight beyond which no push-triggered refresh is started.
MaxPush == 1
\* Setter calls of the application in flight at the same time.
MaxCalls == 2
\* Beacon rounds after which the scan interval no longer expires.
MaxRounds == 4

\* Calls (setters, property reads) the application makes in one run.
MaxOps == 2

(* --------------------------- value domains ----------------------------- *)

None == "None"
UIDs == {"000000001", "000000002"}
IPs == {"8.8.8.8", "8.8.8.4"}
\* asyncio.TimeoutError and aiohttp.ClientError / OSError
Errors == {"TimeoutError", "ClientError"}
Slots == 1..MaxCtrl

VALID_FAN_MODES(group) ==
    CASE group = "disabled" -> {"low", "med", "high"}
      [] group = "3-speed" -> {"low", "med", "high", "auto"}
      [] group = "2-speed" -> {"low", "high", "auto"}
      [] group = "var-speed" -> {"low", "med", "high", "auto"}

(* -------------------- the device (the environment) --------------------- *)

\* The SystemSettings resource of the device with identifier u, as shipped.
DeviceSystem(u) ==
    [AirStreamDeviceUId |-> u, SysOn |-> "on", SysMode |-> "heat",
     SysFan |-> "low", SleepTimer |-> 0, Setpoint |-> 240,
     FreeAir |-> "disabled", EcoLock |-> "false", EcoMin |-> 150,
     EcoMax |-> 300, FanAuto |-> "3-speed",
     NoOfZones |-> IF u = "000000001" THEN 2 ELSE 1]

\* One entry of a Zones<a>_<b> resource.
DeviceZone(i) ==
    [Index |-> i, Type |-> IF i = 0 THEN "auto" ELSE "const",
     Mode |-> "open", SetPoint |-> 240, MinAir |-> 0, MaxAir |-> 100]

DeviceZones(u) == [i \in 1..DeviceSystem(u).NoOfZones |-> DeviceZone(i - 1)]

(* ------------------------- the Controller object ----------------------- *)

\* Controller._system_settings = {} before the first fetch.
EmptySettings ==
    [AirStreamDeviceUId |-> "", SysOn |-> "", SysMode |-> "",
     SysFan |-> "", SleepTimer |-> 0, Setpoint |-> 0,
     FreeAir |-> "", EcoLock |-> "", EcoMin |-> 0,
     EcoMax |-> 0, FanAuto |-> "", NoOfZones |-> 0]

\* Zone.__init__: no data yet, the index fixed.
NewZone(i) ==
    [Index |-> i, Type |-> "", Mode |-> "", SetPoint |-> 0,
     MinAir |-> 0, MaxAir |-> 0]

\* Controller.__init__
NewController(device_uid, device_ip) ==
    [live |-> TRUE, uid |-> device_uid, ip |-> device_ip,
     settings |-> EmptySettings, zones |-> << >>, fan_modes |-> {},
     initialised |-> FALSE, fail |-> None, locked |-> FALSE]

\* A slot that holds no Controller object.
FreeCtrl ==
    [live |-> FALSE, uid |-> "", ip |-> "",
     settings |-> EmptySettings, zones |-> << >>, fan_modes |-> {},
     initialised |-> FALSE, fail |-> None, locked |-> FALSE]

VARIABLES
    ctrl,          \* Slots -> Controller object
    controllers,   \* DiscoveryService._controllers: sequence of <<uid, slot>>, insertion order
    disconnected,  \* DiscoveryService._disconnected
    listeners,     \* DiscoveryService._listeners
    tasks,         \* bag of the coroutines the service runs, each at its suspension point
    calls,         \* bag of the application's setter calls in flight
    dev,           \* UIDs -> the device's resources
    up,            \* UIDs -> whether HTTP requests to the device succeed
    net,           \* the identifiers of the devices on the local network
    ops,           \* calls (setters, property reads) the application has made
    pend,          \* Slots -> controller_disconnected minus controller_reconnected delivered to l1 for that object
    ndiscov,       \* UIDs -> controller_discovered delivered to l1 for that identifier
    soon,          \* the handles the service gave to loop.call_soon / create_task, first in first out
    scan,          \* the datagram endpoint and the _scan_loop task
    ev             \* what the last step did: callbacks run, requests started, results returned

vars == <<ctrl, controllers, disconnected, listeners, tasks, calls, dev, up, net, ops,
          pend, ndiscov, soon, scan, ev>>

(* ------------------------------ helpers -------------------------------- *)

Min(a, b) == IF a < b THEN a ELSE b

\* One entry of ev.  t: "run" (the handler that ran), "call" (the application
\* called setter k with value v or n), "fail" (a request of handler k failed
\* with error v), "cb" (callback k of listener l ran), "get" / "post" (a request
\* was started), "ret" / "raise" (a call of the application ended), "read" (a
\* property was read).  o: the Controller object.  z: a zone index, or -1.
EvZ(t, l, k, o, z) == [t |-> t, l |-> l, k |-> k, o |-> o, z |-> z, v |-> "", n |-> 0]
Ev(t, l, k, o) == EvZ(t, l, k, o, -1)
Call(setter, val, num, o, z) ==
    [t |-> "call", l |-> "", k |-> setter, o |-> o, z |-> z, v |-> val, n |-> num]
Post(k, o, z) ==
    [t |-> "post", l |-> "", k |-> k.cmd, o |-> o, z |-> z, v |-> k.send, n |-> k.num]
Failed(k, o, ex) ==
    [t |-> "fail", l |-> "", k |-> k, o |-> o, z |-> -1, v |-> ex, n |-> 0]

\* The listeners of the application whose callbacks end with an exception.
Raising == {"lx"}

\* `listener.<k>(ctrl)` or `listener.zone_update(ctrl, zone)`: the callback
\* runs; v: "raised" when it ends with an exception.
ListenerCall(l, k, o, z) ==
    [EvZ("cb", l, k, o, z) EXCEPT !.v = IF l \in Raising THEN "raised" ELSE ""]

\* A LogExceptions whose __exit__ returns a false value after an exception.
LogExceptionsReraises(e) == e.v # "raised"

\* LogExceptions.__exit__ returns True: an exception of the block is logged
\* and goes no further.
LogExceptions(e) == TRUE

\* `for listener in self._listeners: with LogExceptions(..): listener.<k>(..)`
\* over the listeners ls.
RECURSIVE FanOutTo(_, _, _, _)
FanOutTo(ls, k, o, z) ==
    IF ls = << >> THEN << >>
    ELSE LET e == ListenerCall(Head(ls), k, o, z)
         IN IF LogExceptions(e) THEN <<e>> \o FanOutTo(Tail(ls), k, o, z)
            ELSE <<e, EvZ("raise", "", "Exception", o, z)>>

\* DiscoveryService.controller_discovered & co: one callback per listener, in order.
FanOut(k, o) == FanOutTo(listeners, k, o, -1)

\* DiscoveryService.zone_update
FanOutZone(o, z) == FanOutTo(listeners, "zone_update", o, z)

\* zone_update for the zones 0..n-1 of o, in order.
RECURSIVE FanOutZones(_, _)
FanOutZones(o, n) ==
    IF n = 0 THEN << >> ELSE FanOutZones(o, n - 1) \o FanOutZone(o, n - 1)

\* `uid in self._controllers`
Known(uid) == \E i \in 1..Len(controllers) : controllers[i][1] = uid

\* `self._controllers[uid]`
Lookup(uid) ==
    LET i == CHOOSE i \in 1..Len(controllers) : controllers[i][1] = uid
    IN controllers[i][2]

\* `self._controllers[uid] = controller`: a known key keeps its place.
Register(uid, o) ==
    IF Known(uid)
    THEN [i \in 1..Len(controllers) |->
            IF controllers[i][1] = uid THEN <<uid, o>> ELSE controllers[i]]
    ELSE Append(controllers, <<uid, o>>)

Registered(o) == \E i \in 1..Len(controllers) : controllers[i][2] = o

\* Objects the application can hold: handed to a listener at some time.
Held(o) == ctrl[o].live /\ ctrl[o].initialised

FreeSlots == {o \in Slots : ~ctrl[o].live}

NumInits == Cardinality({t \in BagToSet(tasks) : t.kind = "init"})
NumTasks == BagCardinality(tasks) - NumInits
NumCalls == BagCardinality(calls)

Put(bag, t) == bag (+) SetToBag({t})
Take(bag, t) == bag (-) SetToBag({t})

\* A coroutine of the service at its suspension point: the requests it waits for.
Task(kind, o, sys, zon) == [kind |-> kind, o |-> o, sys |-> sys, zon |-> zon]

\* The number of l1's callbacks of kind k for object o in a sequence of events.
CountCb(es, k, o) ==
    Cardinality({i \in 1..Len(es) :
        es[i].t = "cb" /\ es[i].l = "l1" /\ es[i].k = k /\ es[i].o = o})

(* ------------------------- the event loop ------------------------------ *)

\* A handle of loop.call_soon or the first step of a task of loop.create_task.
\* k: "replay" (the callback of add_listener for listener l; seen: the registry
\* when add_listener was called, history only), "scan" (a step of the
\* _scan_loop task), "rescan" (the _rescan task of controller_disconnected),
\* "started" (start_discovery goes on after create_datagram_endpoint), "lost"
\* (the transport calls connection_lost), "close" (the first step of the task
\* connection_lost created for close(); l: the name of the task).
Handle(k, l, seen) == [k |-> k, l |-> l, seen |-> seen]

\* The endpoint and the scan loop.  pc: "off" (start_discovery not called),
\* "binding" (create_datagram_endpoint runs), "ready" (the _scan_loop task was
\* created), "wait" (the task waits on _scan_condition), "notified" / "timedout"
\* (its wait was ended by notify / by the timeout and the task has not run
\* since), "done" (the task has returned, or the endpoint of a closed service
\* came up and no task was created).  rounds: the calls of _send_broadcasts.
\* started: start_discovery has returned.  interval: the timeout of the wait the
\* loop started last, "sleep" (DISCOVERY_SLEEP) or "rescan" (DISCOVERY_RESCAN).
\* transport: "none" (self._transport is None), "open", "closing" (close() was
\* called on it, its socket is open until connection_lost is called), "lost"
\* (it failed), "closed" (connection_lost was called).  close_task: the task
\* that called close() first ("" for None).  close: that call of close(), ""
\* (not made), "wait" (in asyncio.wait), "done" (returned), "raised".  again:
\* the tasks whose close() awaits close_task.
ScanOff ==
    [pc |-> "off", rounds |-> 0, started |-> FALSE, interval |-> "", transport |-> "none",
     close_task |-> "", close |-> "", again |-> {}]

(* ------------------------- connection health --------------------------- *)

\* A _failed_connection that does not store the failure.
FailedConnectionForgets(c, ex) == c

\* Controller._failed_connection: the object after the call.
FailedConnectionCtrl(c, ex) == [c EXCEPT !.fail = ex]

\* A level-triggered _failed_connection: it notifies on every failure.
FailedConnectionAlways(c) == c.initialised

\* A _failed_connection that notifies for a controller not yet initialised.
FailedConnectionUninitialised(c) == c.fail = None

\* Controller._failed_connection: whether it calls discovery.controller_disconnected.
FailedConnectionNotifies(c) == c.fail = None /\ c.initialised

\* DiscoveryService.controller_disconnected: the callbacks it runs.
ControllerDisconnected(o) == FanOut("disconnected", o)

\* The callbacks Controller._failed_connection causes on object o.
FailedEvents(o) ==
    IF FailedConnectionNotifies(ctrl[o]) THEN ControllerDisconnected(o) ELSE << >>

\* DiscoveryService._disconnected after Controller._failed_connection on object o.
FailedDisconnected(o) ==
    IF FailedConnectionNotifies(ctrl[o])
    THEN disconnected \cup {ctrl[o].uid} ELSE disconnected

\* DiscoveryService.controller_disconnected: `self.loop.create_task(self._rescan())`.
\* (A service that was never started has no scan loop: the task finds nobody
\* waiting on the condition and is left out.)
FailedSoon(o) ==
    IF FailedConnectionNotifies(ctrl[o]) /\ scan.pc # "off"
    THEN Append(soon, Handle("rescan", "", << >>)) ELSE soon

\* A request of object o fails: the device cannot be reached.
MayFail(o) == ctrl[o].live /\ ~up[ctrl[o].uid]

\* A request of object o is answered.
Answered(o) == ctrl[o].live /\ up[ctrl[o].uid]

\* An _ensure_connected that never raises.
EnsureConnectedNever(c) == FALSE

\* Controller._ensure_connected raises
EnsureConnectedRaises(c) == c.fail # None

(* ----------------------------- refreshing ------------------------------ *)

\* Controller._refresh_system: the object after a response `values`.
RefreshSystemCtrl(c, values) ==
    IF c.uid # values.AirStreamDeviceUId THEN c ELSE [c EXCEPT !.settings = values]

\* A _refresh_system that never fires controller_update.
RefreshSystemSilent(c, values, notify) == FALSE

\* Controller._refresh_system: whether controller_update is fired.
RefreshSystemNotifies(c, values, notify) ==
    notify /\ c.uid = values.AirStreamDeviceUId

\* A _refresh_zone_group that drops the response.
RefreshZoneGroupSkips(c, part) == c

\* Controller._refresh_zone_group for group 0 with Zone._update_zone: the object
\* after a response `part`.
RefreshZoneGroupCtrl(c, part) ==
    [c EXCEPT !.zones =
        [i \in 1..Len(c.zones) |-> IF i <= Min(Len(c.zones), 4) THEN part[i] ELSE c.zones[i]]]

\* Controller._initialize after the SystemSettings response.
InitializeSystemCtrl(c, values) ==
    LET c1 == RefreshSystemCtrl(c, values)
    IN [c1 EXCEPT !.fan_modes = VALID_FAN_MODES(c1.settings.FanAuto),
                  !.zones = [i \in 1..c1.settings.NoOfZones |-> NewZone(i - 1)]]

(* ------------------------- discovery datagrams ------------------------- *)

\* A _refresh_address that ignores the new address.
RefreshAddressKeeps(c, address) == c

\* Controller._refresh_address: the object after the call.
RefreshAddressCtrl(c, address) == [c EXCEPT !.ip = address]

\* Controller._refresh_address: whether a _retry_connection task is created.
RefreshAddressRetries(c) == c.fail # None

\* DiscoveryService._discovery_recieved for a well-formed reply (uid, ip),
\* the identifier not in the registry: a new Controller and its initialize task.
\* head: what the step did before (the datagram it received).
DiscoveryNewFrom(head, uid, ip) ==
    /\ uid \in net
    /\ ~Known(uid)
    /\ FreeSlots # {}
    /\ NumInits < MaxInits
    /\ LET o == CHOOSE s \in FreeSlots : \A s2 \in FreeSlots : s <= s2
       IN /\ ctrl' = [ctrl EXCEPT ![o] = NewController(uid, ip)]
          /\ tasks' = Put(tasks, Task("init", o, "wait", "-"))
          /\ pend' = [pend EXCEPT ![o] = 0]
          /\ ev' = head \o <<Ev("run", "", "discovery_new", o), Ev("get", "", "SystemSettings", o)>>
    /\ UNCHANGED <<controllers, disconnected, listeners, soon, scan, calls, dev, up, net, ops, ndiscov>>

DiscoveryNew(uid, ip) == DiscoveryNewFrom(<< >>, uid, ip)

\* DiscoveryService._discovery_recieved for a well-formed reply (uid, ip),
\* the identifier in the registry: Controller._refresh_address.
DiscoveryKnownFrom(head, uid, ip) ==
    /\ Known(uid)
    /\ LET o == Lookup(uid)
           retry == RefreshAddressRetries(ctrl[o])
       IN /\ retry => NumTasks < MaxTasks
          /\ ctrl' = [ctrl EXCEPT ![o] = RefreshAddressCtrl(ctrl[o], ip)]
          /\ tasks' = IF retry THEN Put(tasks, Task("retry", o, "wait", "wait")) ELSE tasks
          /\ ev' = head \o <<[Ev("run", "", "discovery_known", o) EXCEPT !.v = ip]>> \o
                   (IF retry THEN <<Ev("get", "", "SystemSettings", o), Ev("get", "", "Zones1_4", o)>>
                    ELSE << >>)
    /\ UNCHANGED <<controllers, disconnected, listeners, soon, scan, calls, dev, up, net, ops, pend, ndiscov>>

DiscoveryKnown(uid, ip) == DiscoveryKnownFrom(<< >>, uid, ip)

(* ---------------------- Controller._initialize ------------------------- *)

\* initialize_controller: the SystemSettings response arrives.
InitSystemOk(o) ==
    /\ BagIn(Task("init", o, "wait", "-"), tasks)
    /\ Answered(o)
    /\ ctrl' = [ctrl EXCEPT ![o] = InitializeSystemCtrl(ctrl[o], dev[ctrl[o].uid].sys)]
    /\ tasks' = Put(Take(tasks, Task("init", o, "wait", "-")), Task("init", o, "ok", "wait"))
    /\ ev' = <<Ev("run", "", "init_system_ok", o), Ev("get", "", "Zones1_4", o)>>
    /\ UNCHANGED <<controllers, disconnected, listeners, soon, scan, calls, dev, up, net, ops, pend, ndiscov>>

\* initialize_controller: a request of Controller._initialize fails; the
\* ConnectionError is logged and the Controller object dropped.
InitFail(o, ex) ==
    /\ \E t \in BagToSet(tasks) :
          /\ t.kind = "init" /\ t.o = o
          /\ tasks' = Take(tasks, t)
    /\ MayFail(o)
    /\ ex \in Errors
    /\ ev' = <<Failed("init_fail", o, ex)>> \o FailedEvents(o)
    /\ disconnected' = FailedDisconnected(o)
    /\ soon' = FailedSoon(o)
    /\ pend' = [pend EXCEPT ![o] = @ + CountCb(FailedEvents(o), "disconnected", o)]
    /\ ctrl' = [ctrl EXCEPT ![o] = FreeCtrl]
    /\ UNCHANGED <<controllers, listeners, scan, calls, dev, up, net, ops, ndiscov>>

\* initialize_controller: the zone group response arrives, the controller is
\* registered and controller_discovered fired.
InitZonesOk(o) ==
    /\ BagIn(Task("init", o, "ok", "wait"), tasks)
    /\ Answered(o)
    /\ ctrl' = [ctrl EXCEPT ![o] =
                  [RefreshZoneGroupCtrl(ctrl[o], dev[ctrl[o].uid].zones) EXCEPT !.initialised = TRUE]]
    /\ tasks' = Take(tasks, Task("init", o, "ok", "wait"))
    /\ controllers' = Register(ctrl[o].uid, o)
    /\ ev' = <<Ev("run", "", "init_zones_ok", o)>> \o FanOut("discovered", o)
    /\ ndiscov' = [ndiscov EXCEPT ![ctrl[o].uid] = @ + CountCb(FanOut("discovered", o), "discovered", o)]
    /\ UNCHANGED <<disconnected, listeners, soon, scan, calls, dev, up, net, ops, pend>>

(* ------------ refreshes: _retry_connection and push updates ------------ *)

\* Tasks that wait for a refresh: Controller._retry_connection ("retry"), a
\* refresh of its gather that outlived it ("orphan"), DiscoveryService._wrap_update
\* around _refresh_system() or _refresh_zones() ("push").
RefreshKinds == {"retry", "orphan", "push"}

\* The `notify` argument of the refresh a task of this kind runs.
NotifyOf(kind) == kind = "push"

\* The task bag after request `which` of task t succeeded.
RefreshDone(t, which) ==
    IF t.kind = "retry" THEN Put(Take(tasks, t), [t EXCEPT ![which] = "ok"])
    ELSE Take(tasks, t)

\* Controller._refresh_system: the SystemSettings response arrives.
RefreshSystemOk(o, kind) ==
    /\ \E t \in BagToSet(tasks) :
          /\ t.kind = kind /\ t.o = o /\ t.sys = "wait"
          /\ tasks' = RefreshDone(t, "sys")
    /\ kind \in RefreshKinds
    /\ Answered(o)
    /\ LET values == dev[ctrl[o].uid].sys
       IN /\ ctrl' = [ctrl EXCEPT ![o] = RefreshSystemCtrl(ctrl[o], values)]
          /\ ev' = <<Ev("run", "", "refresh_system_ok", o)>> \o
                   (IF RefreshSystemNotifies(ctrl[o], values, NotifyOf(kind))
                    THEN FanOut("controller_update", o) ELSE << >>)
    /\ UNCHANGED <<controllers, disconnected, listeners, soon, scan, calls, dev, up, net, ops, pend, ndiscov>>

\* Controller._refresh_zone_group: the Zones1_4 response arrives.
RefreshZonesOk(o, kind) ==
    /\ \E t \in BagToSet(tasks) :
          /\ t.kind = kind /\ t.o = o /\ t.zon = "wait"
          /\ tasks' = RefreshDone(t, "zon")
    /\ kind \in RefreshKinds
    /\ Answered(o)
    /\ ctrl' = [ctrl EXCEPT ![o] = RefreshZoneGroupCtrl(ctrl[o], dev[ctrl[o].uid].zones)]
    /\ ev' = <<Ev("run", "", "refresh_zones_ok", o)>> \o
             (IF NotifyOf(kind) THEN FanOutZones(o, Min(Len(ctrl[o].zones), 4)) ELSE << >>)
    /\ UNCHANGED <<controllers, disconnected, listeners, soon, scan, calls, dev, up, net, ops, pend, ndiscov>>

\* A refresh task that stays in flight after its request failed.
RefreshRestLingers(t, which) == SetToBag({t})

\* What is left of task t when its request `which` fails.  The gather of
\* _retry_connection raises and the task logs and ends, a request of it still in
\* flight goes on alone; _wrap_update logs and ends.
RefreshRest(t, which) ==
    LET other == IF which = "sys" THEN t.zon ELSE t.sys
    IN IF t.kind = "retry" /\ other = "wait"
       THEN SetToBag({[t EXCEPT !.kind = "orphan", ![which] = "-"]})
       ELSE EmptyBag

\* Controller._get_resource fails with a transport error inside a refresh.
RefreshFail(o, kind, which, ex) ==
    /\ \E t \in BagToSet(tasks) :
          /\ t.kind = kind /\ t.o = o /\ t[which] = "wait"
          /\ tasks' = Take(tasks, t) (+) RefreshRest(t, which)
    /\ kind \in RefreshKinds
    /\ MayFail(o)
    /\ ex \in Errors
    /\ ev' = <<Failed("refresh_fail", o, ex)>> \o FailedEvents(o)
    /\ disconnected' = FailedDisconnected(o)
    /\ soon' = FailedSoon(o)
    /\ pend' = [pend EXCEPT ![o] = @ + CountCb(FailedEvents(o), "disconnected", o)]
    /\ ctrl' = [ctrl EXCEPT ![o] = FailedConnectionCtrl(ctrl[o], ex)]
    /\ UNCHANGED <<controllers, listeners, scan, calls, dev, up, net, ops, ndiscov>>

\* DiscoveryService.controller_reconnected: `self._disconnected.remove(uid)`
\* raises KeyError when the identifier is not in the set, before any callback.
ControllerReconnected(o) ==
    IF ctrl[o].uid \in disconnected THEN FanOut("reconnected", o) ELSE << >>

\* The callbacks of a successful Controller._retry_connection, in order.
RetryEvents(o) ==
    FanOut("controller_update", o) \o FanOutZones(o, Len(ctrl[o].zones))
        \o ControllerReconnected(o)

\* DiscoveryService.controller_reconnected inside _retry_connection: the
\* KeyError of `self._disconnected.remove(uid)` is no ConnectionError and leaves
\* the task.
RetryRaises(o) ==
    IF ctrl[o].uid \in disconnected THEN << >> ELSE <<Ev("raise", "", "KeyError", o)>>

\* Controller._retry_connection: the object once both refreshes succeeded.
RetryFinishCtrl(c) == [c EXCEPT !.fail = None]

\* Controller._retry_connection after both refreshes succeeded.
RetryFinish(o) ==
    /\ BagIn(Task("retry", o, "ok", "ok"), tasks)
    /\ tasks' = Take(tasks, Task("retry", o, "ok", "ok"))
    /\ ctrl' = [ctrl EXCEPT ![o] = RetryFinishCtrl(ctrl[o])]
    /\ disconnected' = disconnected \ {ctrl[o].uid}
    /\ ev' = <<Ev("run", "", "retry_finish", o)>> \o RetryEvents(o) \o RetryRaises(o)
    /\ pend' = [pend EXCEPT ![o] = @ - CountCb(RetryEvents(o), "reconnected", o)]
    /\ UNCHANGED <<controllers, listeners, soon, scan, calls, dev, up, net, ops, ndiscov>>

(* ------------------------- push notifications -------------------------- *)

\* A _find_by_addr that does not compare the address.
FindByAddrFirst(addr) == IF controllers = << >> THEN 0 ELSE controllers[1][2]

\* DiscoveryService._find_by_addr: the first registered controller with that
\* address, 0 when there is none.
FindByAddr(addr) ==
    LET hits == {i \in 1..Len(controllers) : ctrl[controllers[i][2]].ip = addr}
    IN IF hits = {} THEN 0
       ELSE controllers[CHOOSE i \in hits : \A j \in hits : i <= j][2]

\* DiscoveryService._process_datagram for CHANGED_SYSTEM ("sys") or
\* CHANGED_ZONES ("zon") from address addr.
ProcessChangedFrom(head, which, addr) ==
    /\ which \in {"sys", "zon"}
    /\ LET o == FindByAddr(addr)
       IN IF o = 0
          THEN /\ ev' = head \o <<Ev("run", "", "changed_unknown", 0)>>
               /\ UNCHANGED tasks
          ELSE /\ NumTasks < MaxPush
               /\ tasks' = Put(tasks, IF which = "sys" THEN Task("push", o, "wait", "-")
                                      ELSE Task("push", o, "-", "wait"))
               /\ ev' = head \o <<Ev("run", "", "changed", o),
                          Ev("get", "", IF which = "sys" THEN "SystemSettings" ELSE "Zones1_4", o)>>
    /\ UNCHANGED <<ctrl, controllers, disconnected, listeners, soon, scan, calls, dev, up, net, ops, pend, ndiscov>>

ProcessChanged(which, addr) == ProcessChangedFrom(<< >>, which, addr)

(* -------------------------- received datagrams ------------------------- *)

\* A datagram is the sequence of its comma-separated fields, a field the
\* sequence of its parts between underscores: what data.decode().split(',') and
\* field.split('_') make of it.
DISCOVERY_MSG == << <<"IASD">> >>
CHANGED_SYSTEM == << <<"iZoneChanged", "System">> >>
CHANGED_ZONES == << <<"iZoneChanged", "Zones">> >>
CHANGED_SCHEDULES == << <<"iZoneChanged", "Schedules">> >>

\* b"ASPort_12107,Mac_<uid>,IP_<ip>"
ReplyOf(uid, ip) == << <<"ASPort", "12107">>, <<"Mac", uid>>, <<"IP", ip>> >>

\* The datagrams the service receives.
Datagrams ==
    << DISCOVERY_MSG, CHANGED_SYSTEM, CHANGED_ZONES, CHANGED_SCHEDULES,
       ReplyOf("000000001", "8.8.8.8"),
       ReplyOf("000000001", "8.8.8.4") \o << <<"iZone">> >>,
       ReplyOf("000000001", "8.8.8.8") \o << <<"iZone">>, <<"iLight">>, <<"iDrate">> >>,
       ReplyOf("000000001", "8.8.8.4") \o << <<"iLight">> >>,
       << <<"ASPort", "12107">>, <<"Mac", "000000001">> >>,
       << <<"ASPort", "12108">>, <<"Mac", "000000001">>, <<"IP", "8.8.8.4">> >>,
       << <<"ASPort", "12107">>, <<"Xyz", "000000001">>, <<"Abc", "8.8.8.4">> >>,
       << <<"ASPort", "12107">>, <<"Mac", "000000001", "2">>, <<"IP", "8.8.8.4", "2">> >>,
       << <<"ASPort", "12107">>, <<"Mac000000001">>, <<"IP", "8.8.8.4">> >>,
       << <<"ASPort", "12107">>, <<"Mac", "000000001">>, <<"8.8.8.4">> >> >>

\* The outcome of the parsing of _discovery_recieved: "invalid" (logged and
\* dropped), "dropped", "IndexError" (a split('_')[1] failed), or "reply" with
\* the identifier and the address.
Parsed(res, uid, ip) == [res |-> res, uid |-> uid, ip |-> ip]

\* A parser that does not look at the product tag.
ParseReplyAnyProduct(message) ==
    IF Len(message) < 3 \/ message[1] # <<"ASPort", "12107">> THEN Parsed("invalid", "", "")
    ELSE IF Len(message[2]) < 2 \/ Len(message[3]) < 2 THEN Parsed("IndexError", "", "")
    ELSE Parsed("reply", message[2][2], message[3][2])

\* DiscoveryService._discovery_recieved up to `device_uid not in self._controllers`.
ParseReply(message) ==
    IF Len(message) < 3 \/ message[1] # <<"ASPort", "12107">> THEN Parsed("invalid", "", "")
    ELSE IF Len(message) > 3 /\ message[4] # <<"iZone">> THEN Parsed("dropped", "", "")
    ELSE IF Len(message[2]) < 2 \/ Len(message[3]) < 2 THEN Parsed("IndexError", "", "")
    ELSE Parsed("reply", message[2][2], message[3][2])

\* The event of a received datagram: Datagrams[i] from address addr.
Dgram(i, addr) ==
    [t |-> "dgram", l |-> "", k |-> addr, o |-> 0, z |-> -1, v |-> "", n |-> i]

\* DiscoveryService._discovery_recieved
DiscoveryRecieved(head, data) ==
    LET p == ParseReply(data)
    IN IF p.res = "reply"
       THEN IF ~Known(p.uid) THEN DiscoveryNewFrom(head, p.uid, p.ip)
            ELSE DiscoveryKnownFrom(head, p.uid, p.ip)
       ELSE /\ ev' = head \o <<IF p.res = "IndexError" THEN Ev("raise", "", "IndexError", 0)
                               ELSE Ev("run", "", p.res, 0)>>
            /\ UNCHANGED <<ctrl, controllers, disconnected, listeners, soon, scan, tasks, calls, dev, up,
                           net, ops, pend, ndiscov>>

\* DiscoveryService._process_datagram
ProcessDatagram(head, data, addr) ==
    IF data \in {DISCOVERY_MSG, CHANGED_SCHEDULES}
    THEN /\ ev' = head \o <<Ev("run", "", "ignored", 0)>>
         /\ UNCHANGED <<ctrl, controllers, disconnected, listeners, soon, scan, tasks, calls, dev, up,
                        net, ops, pend, ndiscov>>
    ELSE IF data = CHANGED_SYSTEM THEN ProcessChangedFrom(head, "sys", addr)
    ELSE IF data = CHANGED_ZONES THEN ProcessChangedFrom(head, "zon", addr)
    ELSE DiscoveryRecieved(head, data)

\* DiscoveryService.datagram_received: datagram Datagrams[i] arrives from
\* address addr; it is dropped once close() was called.
DatagramReceived(i, addr) ==
    /\ i \in 1..Len(Datagrams)
    /\ addr \in IPs
    /\ IF scan.close_task # ""
       THEN /\ ev' = <<Dgram(i, addr), Ev("run", "", "closed", 0)>>
            /\ UNCHANGED <<ctrl, controllers, disconnected, listeners, soon, scan, tasks, calls,
                           dev, up, net, ops, pend, ndiscov>>
       ELSE ProcessDatagram(<<Dgram(i, addr)>>, Datagrams[i], addr)

(* ------------------------- reading properties -------------------------- *)

\* Controller._get_system_state: "ConnectionError" when _ensure_connected
\* raises, else "value": the cached entry is returned.
GetSystemState(c) == IF EnsureConnectedRaises(c) THEN "ConnectionError" ELSE "value"

\* Zone._get_zone_state, the zone of controller c.
GetZoneState(c) == IF EnsureConnectedRaises(c) THEN "ConnectionError" ELSE "value"

\* The application reads a property backed by the system settings (is_on, mode,
\* fan, sleep_timer, ...: all of them go through _get_system_state).
ReadSystem(o) ==
    /\ Held(o)
    /\ ops < MaxOps
    /\ ops' = ops + 1
    /\ ev' = <<Ev("run", "", "read_system", o), Ev("read", "", GetSystemState(ctrl[o]), o)>>
    /\ UNCHANGED <<ctrl, controllers, disconnected, listeners, soon, scan, tasks, calls, dev, up, net, pend, ndiscov>>

\* The application reads a property of zone z (name, type, mode, temp_setpoint,
\* ...: all of them go through _get_zone_state).
ReadZone(o, z) ==
    /\ Held(o)
    /\ z < Len(ctrl[o].zones)
    /\ ops < MaxOps
    /\ ops' = ops + 1
    /\ ev' = <<Ev("run", "", "read_zone", o), EvZ("read", "", GetZoneState(ctrl[o]), o, z)>>
    /\ UNCHANGED <<ctrl, controllers, disconnected, listeners, soon, scan, tasks, calls, dev, up, net, pend, ndiscov>>

(* ------------------------- controller setters -------------------------- *)

\* What a setter does before its first suspension point.  res: "raise" (exc
\* says what), "return", or "set": _set_system_state(key, cmd, value, send) for
\* a controller setter, _send_command(cmd, send) for a zone setter.  A value is
\* val (a string) or num (a number; temperatures in tenths of a degree).  then:
\* the mode set_mode sets after FreeAir went off, or "".
Plan(res, exc, key, cmd, val, num, send, then) ==
    [res |-> res, exc |-> exc, key |-> key, cmd |-> cmd, val |-> val,
     num |-> num, send |-> send, then |-> then]

Raise(exc) == Plan("raise", exc, "", "", "", 0, "", "")
Return == Plan("return", "", "", "", "", 0, "", "")
SetStr(key, cmd, val, send, then) == Plan("set", "", key, cmd, val, 0, send, then)
SetNum(key, cmd, num) == Plan("set", "", key, cmd, "", num, "", "")

\* 'on' if value else 'off'
OnOff(b) == IF b = "True" THEN "on" ELSE "off"

\* Controller.free_air, free_air_enabled, eco_lock, temp_min, temp_max, past
\* their _ensure_connected.
FreeAir(c) == c.settings.FreeAir = "on"
FreeAirEnabled(c) == c.settings.FreeAir # "disabled"
EcoLock(c) == c.settings.EcoLock = "true"
\* Controller.mode, past its _ensure_connected.
Mode(c) == IF FreeAir(c) THEN "free_air" ELSE c.settings.SysMode
\* A temp_min that ignores the eco-lock.
TempMinNoEco(c) == 150
TempMin(c) == IF EcoLock(c) THEN c.settings.EcoMin ELSE 150
TempMax(c) == IF EcoLock(c) THEN c.settings.EcoMax ELSE 300

\* Controller.set_on
SetOn(c, val) == SetStr("SysOn", "SystemON", OnOff(val), OnOff(val), "")

\* Controller.set_mode
SetMode(c, val) ==
    IF EnsureConnectedRaises(c) THEN Raise("ConnectionError")
    ELSE IF val = "free_air"
    THEN IF FreeAir(c) THEN Return
         ELSE IF ~FreeAirEnabled(c) THEN Raise("AttributeError")
         ELSE SetStr("FreeAir", "FreeAir", "on", "on", "")
    ELSE IF FreeAir(c) THEN SetStr("FreeAir", "FreeAir", "off", "off", val)
         ELSE SetStr("SysMode", "SystemMODE", val, val, "")

\* Controller.set_fan
SetFan(c, val) ==
    IF val \notin c.fan_modes THEN Raise("AttributeError")
    ELSE SetStr("SysFan", "SystemFAN", val, IF val = "med" THEN "medium" ELSE val, "")

\* A set_sleep_timer without the upper limit.
SetSleepTimerNoLimit(c, num) ==
    IF num < 0 \/ num % 30 # 0 THEN Raise("AttributeError")
    ELSE SetNum("SleepTimer", "SleepTimer", num)

\* Controller.set_sleep_timer
SetSleepTimer(c, num) ==
    IF num < 0 \/ num > 120 \/ num % 30 # 0 THEN Raise("AttributeError")
    ELSE SetNum("SleepTimer", "SleepTimer", num)

\* Controller.set_free_air
SetFreeAir(c, val) ==
    IF EnsureConnectedRaises(c) THEN Raise("ConnectionError")
    ELSE IF ~FreeAirEnabled(c) THEN Raise("AttributeError")
    ELSE SetStr("FreeAir", "FreeAir", OnOff(val), OnOff(val), "")

\* Controller.set_temp_setpoint
SetTempSetpoint(c, num) ==
    IF num % 5 # 0 THEN Raise("AttributeError")
    ELSE IF EnsureConnectedRaises(c) THEN Raise("ConnectionError")
    ELSE IF num < TempMin(c) \/ num > TempMax(c) THEN Raise("AttributeError")
    ELSE SetNum("Setpoint", "UnitSetpoint", num)

ControllerSetters ==
    {"set_on", "set_mode", "set_fan", "set_sleep_timer", "set_free_air", "set_temp_setpoint"}

ControllerSetterPlan(c, setter, val, num) ==
    CASE setter = "set_on" -> SetOn(c, val)
      [] setter = "set_mode" -> SetMode(c, val)
      [] setter = "set_fan" -> SetFan(c, val)
      [] setter = "set_sleep_timer" -> SetSleepTimer(c, num)
      [] setter = "set_free_air" -> SetFreeAir(c, val)
      [] setter = "set_temp_setpoint" -> SetTempSetpoint(c, num)

NumKeys == {"SleepTimer", "Setpoint"}

\* Controller._set_system_state: `self._system_settings[state] == value`
AlreadySet(c, plan) ==
    IF plan.key \in NumKeys THEN c.settings[plan.key] = plan.num
    ELSE c.settings[plan.key] = plan.val

\* A setter call of the application at its suspension point.  z: the zone
\* index, -1 for a controller setter.  pc: "lock" (waits for _sending_lock),
\* "send" (the command is on its way), "refetch" (waits for SystemSettings),
\* "sleep" (asyncio.sleep(0.5) of set_mode).  before: the caches of the
\* controller when the application called the setter (history: no code reads it).
CallRec(o, z, plan, pc, before) ==
    [o |-> o, z |-> z, key |-> plan.key, cmd |-> plan.cmd, val |-> plan.val,
     num |-> plan.num, send |-> plan.send, then |-> plan.then, pc |-> pc,
     before |-> before]

\* The cached system settings and the cached settings of every zone.
Cache(c) == [settings |-> c.settings, zones |-> c.zones]

\* asyncio.Lock.acquire returns at once: not locked and nobody waits.
LockFree(o) ==
    ~ctrl[o].locked /\ ~\E k \in BagToSet(calls) : k.o = o /\ k.pc = "lock"

\* Controller._set_system_state up to its first suspension point; `run`: the
\* event that says who called it, `rest`: the other calls in flight.
SetSystemState(o, z, plan, run, rest, before) ==
    LET start == ~AlreadySet(ctrl[o], plan)
        grab == start /\ LockFree(o)
    IN /\ calls' = IF start THEN Put(rest, CallRec(o, z, plan, IF grab THEN "send" ELSE "lock", before))
                   ELSE rest
       /\ ctrl' = IF grab THEN [ctrl EXCEPT ![o].locked = TRUE] ELSE ctrl
       /\ ev' = <<run>> \o
                (IF ~start THEN <<Ev("ret", "", "", o)>>
                 ELSE IF grab THEN <<Post(plan, o, z)>> ELSE << >>)

\* The application calls a setter of a controller.
CallSetter(o, setter, val, num) ==
    /\ Held(o)
    /\ NumCalls < MaxCalls
    /\ ops < MaxOps
    /\ ops' = ops + 1
    /\ setter \in ControllerSetters
    /\ LET plan == ControllerSetterPlan(ctrl[o], setter, val, num)
       IN IF plan.res = "set" THEN SetSystemState(o, -1, plan, Call(setter, val, num, o, -1), calls, Cache(ctrl[o]))
          ELSE /\ ev' = <<Call(setter, val, num, o, -1),
                          IF plan.res = "raise" THEN Ev("raise", "", plan.exc, o)
                          ELSE Ev("ret", "", "", o)>>
               /\ UNCHANGED <<ctrl, calls>>
    /\ UNCHANGED <<controllers, disconnected, listeners, soon, scan, tasks, dev, up, net, pend, ndiscov>>

\* `async with self._sending_lock`: a waiting call gets the lock and sends.
AcquireLock(o) ==
    /\ ~ctrl[o].locked
    /\ \E k \in BagToSet(calls) :
          /\ k.o = o /\ k.pc = "lock"
          /\ calls' = Put(Take(calls, k), [k EXCEPT !.pc = "send"])
          /\ ev' = <<Ev("run", "", "acquire", o), Post(k, o, k.z)>>
    /\ ctrl' = [ctrl EXCEPT ![o].locked = TRUE]
    /\ UNCHANGED <<controllers, disconnected, listeners, soon, scan, tasks, dev, up, net, ops, pend, ndiscov>>

\* The device carries out a system command.
DeviceApply(d, k) ==
    [d EXCEPT !.sys[k.key] = IF k.key \in NumKeys THEN k.num ELSE k.val]

\* Controller._send_command_async of a controller setter succeeds (the device
\* answers 200, and has carried the command out or not); _refresh_system starts.
SendOk(o, applied) ==
    /\ \E k \in BagToSet(calls) :
          /\ k.o = o /\ k.z = -1 /\ k.pc = "send"
          /\ calls' = Put(Take(calls, k), [k EXCEPT !.pc = "refetch"])
          /\ dev' = IF applied THEN [dev EXCEPT ![ctrl[o].uid] = DeviceApply(@, k)] ELSE dev
    /\ Answered(o)
    /\ ev' = <<Ev("run", "", "send_ok", o), Ev("get", "", "SystemSettings", o)>>
    /\ UNCHANGED <<ctrl, controllers, disconnected, listeners, soon, scan, tasks, up, net, ops, pend, ndiscov>>

\* A _set_system_state that keeps _sending_lock when its command fails.
SendFailKeepsLock(o, ex) ==
    /\ \E k \in BagToSet(calls) :
          /\ k.o = o /\ k.z = -1 /\ k.pc = "send"
          /\ calls' = Take(calls, k)
    /\ MayFail(o)
    /\ ex \in Errors
    /\ ev' = <<Failed("send_fail", o, ex)>> \o FailedEvents(o)
                \o <<Ev("raise", "", "ConnectionError", o)>>
    /\ disconnected' = FailedDisconnected(o)
    /\ soon' = FailedSoon(o)
    /\ pend' = [pend EXCEPT ![o] = @ + CountCb(FailedEvents(o), "disconnected", o)]
    /\ ctrl' = [ctrl EXCEPT ![o] = FailedConnectionCtrl(ctrl[o], ex)]
    /\ UNCHANGED <<controllers, listeners, scan, tasks, dev, up, net, ops, ndiscov>>

\* Controller._send_command_async of a controller setter fails: the setter
\* raises ConnectionError, the lock is released.
SendFail(o, ex) ==
    /\ \E k \in BagToSet(calls) :
          /\ k.o = o /\ k.z = -1 /\ k.pc = "send"
          /\ calls' = Take(calls, k)
    /\ MayFail(o)
    /\ ex \in Errors
    /\ ev' = <<Failed("send_fail", o, ex)>> \o FailedEvents(o)
                \o <<Ev("raise", "", "ConnectionError", o)>>
    /\ disconnected' = FailedDisconnected(o)
    /\ soon' = FailedSoon(o)
    /\ pend' = [pend EXCEPT ![o] = @ + CountCb(FailedEvents(o), "disconnected", o)]
    /\ ctrl' = [ctrl EXCEPT ![o] = [FailedConnectionCtrl(ctrl[o], ex) EXCEPT !.locked = FALSE]]
    /\ UNCHANGED <<controllers, listeners, scan, tasks, dev, up, net, ops, ndiscov>>

\* The calls in flight and the end of the step once _set_system_state of call k
\* is over: set_mode sleeps before its second command, any other setter returns.
AfterSet(k, o) ==
    /\ calls' = IF k.then # "" THEN Put(Take(calls, k), [k EXCEPT !.pc = "sleep"])
                ELSE Take(calls, k)

AfterSetEvents(k, o) == IF k.then # "" THEN << >> ELSE <<Ev("ret", "", "", o)>>

\* The immediate _refresh_system of _set_system_state succeeds.
RefetchOk(o) ==
    /\ Answered(o)
    /\ \E k \in BagToSet(calls) :
          /\ k.o = o /\ k.pc = "refetch"
          /\ AfterSet(k, o)
          /\ LET values == dev[ctrl[o].uid].sys
             IN /\ ctrl' = [ctrl EXCEPT ![o] =
                              [RefreshSystemCtrl(ctrl[o], values) EXCEPT !.locked = FALSE]]
                /\ ev' = <<Ev("run", "", "refetch_ok", o)>> \o
                         (IF RefreshSystemNotifies(ctrl[o], values, TRUE)
                          THEN FanOut("controller_update", o) ELSE << >>)
                         \o AfterSetEvents(k, o)
    /\ UNCHANGED <<controllers, disconnected, listeners, soon, scan, tasks, dev, up, net, ops, pend, ndiscov>>

\* The immediate _refresh_system of _set_system_state fails: the
\* ConnectionError is swallowed.
RefetchFail(o, ex) ==
    /\ MayFail(o)
    /\ ex \in Errors
    /\ \E k \in BagToSet(calls) :
          /\ k.o = o /\ k.pc = "refetch"
          /\ AfterSet(k, o)
          /\ ev' = <<Failed("refetch_fail", o, ex)>> \o FailedEvents(o)
                      \o AfterSetEvents(k, o)
    /\ disconnected' = FailedDisconnected(o)
    /\ soon' = FailedSoon(o)
    /\ pend' = [pend EXCEPT ![o] = @ + CountCb(FailedEvents(o), "disconnected", o)]
    /\ ctrl' = [ctrl EXCEPT ![o] = [FailedConnectionCtrl(ctrl[o], ex) EXCEPT !.locked = FALSE]]
    /\ UNCHANGED <<controllers, listeners, scan, tasks, dev, up, net, ops, ndiscov>>

\* Controller.set_mode after asyncio.sleep(0.5): its second _set_system_state.
SleepDone(o) ==
    /\ \E k \in BagToSet(calls) :
          /\ k.o = o /\ k.pc = "sleep"
          /\ SetSystemState(o, -1, SetStr("SysMode", "SystemMODE", k.then, k.then, ""),
                            Ev("run", "", "sleep_done", o), Take(calls, k), k.before)
    /\ UNCHANGED <<controllers, disconnected, listeners, soon, scan, tasks, dev, up, net, ops, pend, ndiscov>>

(* ------------------------------ zone setters --------------------------- *)

ZoneSetters == {"set_airflow_min", "set_airflow_max", "set_temp_setpoint", "set_mode"}

\* An airflow setter that checks the step of 5 only.
ZoneSetAirflowNoRange(key, cmd, num) ==
    IF num % 5 # 0 THEN Raise("AttributeError")
    ELSE SetNum(key, cmd, num)

\* Zone.set_airflow_min (key "MinAir", cmd "AirMinCommand") and
\* Zone.set_airflow_max (key "MaxAir", cmd "AirMaxCommand")
ZoneSetAirflow(key, cmd, num) ==
    IF num % 5 # 0 THEN Raise("AttributeError")
    ELSE IF num < 0 \/ num > 100 THEN Raise("AttributeError")
    ELSE SetNum(key, cmd, num)

\* Zone.set_temp_setpoint, zn the zone's cached data
ZoneSetTempSetpoint(c, zn, num) ==
    IF EnsureConnectedRaises(c) THEN Raise("ConnectionError")
    ELSE IF zn.Type # "auto" THEN Raise("AttributeError")
    ELSE IF num % 5 # 0 THEN Raise("AttributeError")
    ELSE IF num < TempMin(c) \/ num > TempMax(c) THEN Raise("AttributeError")
    ELSE SetNum("SetPoint", "ZoneCommand", num)

\* Zone.set_mode: auto sends the cached setpoint.
ZoneSetMode(c, zn, val) ==
    IF val = "auto"
    THEN IF EnsureConnectedRaises(c) THEN Raise("ConnectionError")
         ELSE IF zn.Type # "auto" THEN Raise("AttributeError")
         ELSE Plan("set", "", "Mode", "ZoneCommand", "auto", zn.SetPoint, "", "")
    ELSE SetStr("Mode", "ZoneCommand", val, val, "")

ZoneSetterPlan(c, zn, setter, val, num) ==
    CASE setter = "set_airflow_min" -> ZoneSetAirflow("MinAir", "AirMinCommand", num)
      [] setter = "set_airflow_max" -> ZoneSetAirflow("MaxAir", "AirMaxCommand", num)
      [] setter = "set_temp_setpoint" -> ZoneSetTempSetpoint(c, zn, num)
      [] setter = "set_mode" -> ZoneSetMode(c, zn, val)

\* The zone's _zone_data after the setter's command was sent.
ZoneWrite(zn, k) ==
    CASE k.key = "MinAir" -> [zn EXCEPT !.MinAir = k.num]
      [] k.key = "MaxAir" -> [zn EXCEPT !.MaxAir = k.num]
      [] k.key = "SetPoint" -> [zn EXCEPT !.Mode = "auto", !.SetPoint = k.num]
      [] k.key = "Mode" -> [zn EXCEPT !.Mode = k.val]

\* The application calls a setter of zone z: Zone._send_command starts at once.
CallZoneSetter(o, z, setter, val, num) ==
    /\ Held(o)
    /\ z < Len(ctrl[o].zones)
    /\ NumCalls < MaxCalls
    /\ ops < MaxOps
    /\ ops' = ops + 1
    /\ setter \in ZoneSetters
    /\ LET plan == ZoneSetterPlan(ctrl[o], ctrl[o].zones[z + 1], setter, val, num)
       IN IF plan.res = "set"
          THEN /\ calls' = Put(calls, CallRec(o, z, plan, "send", Cache(ctrl[o])))
               /\ ev' = <<Call(setter, val, num, o, z), Post(plan, o, z)>>
          ELSE /\ ev' = <<Call(setter, val, num, o, z), Ev("raise", "", plan.exc, o)>>
               /\ UNCHANGED calls
    /\ UNCHANGED <<ctrl, controllers, disconnected, listeners, soon, scan, tasks, dev, up, net, pend, ndiscov>>

\* The device carries out a zone command.
DeviceApplyZone(d, k) == [d EXCEPT !.zones[k.z + 1] = ZoneWrite(@, k)]

\* Zone._send_command succeeds: the value is written to _zone_data and
\* zone_update fired.
ZoneSendOk(o, applied) ==
    /\ Answered(o)
    /\ \E k \in BagToSet(calls) :
          /\ k.o = o /\ k.z >= 0 /\ k.pc = "send"
          /\ calls' = Take(calls, k)
          /\ dev' = IF applied THEN [dev EXCEPT ![ctrl[o].uid] = DeviceApplyZone(@, k)] ELSE dev
          /\ ctrl' = [ctrl EXCEPT ![o].zones[k.z + 1] = ZoneWrite(@, k)]
          /\ ev' = <<Ev("run", "", "zone_send_ok", o)>> \o FanOutZone(o, k.z)
                      \o <<Ev("ret", "", "", o)>>
    /\ UNCHANGED <<controllers, disconnected, listeners, soon, scan, tasks, up, net, ops, pend, ndiscov>>

\* Zone._send_command fails: the setter raises ConnectionError.
ZoneSendFail(o, ex) ==
    /\ MayFail(o)
    /\ ex \in Errors
    /\ \E k \in BagToSet(calls) :
          /\ k.o = o /\ k.z >= 0 /\ k.pc = "send"
          /\ calls' = Take(calls, k)
    /\ ev' = <<Failed("zone_send_fail", o, ex)>> \o FailedEvents(o)
                \o <<Ev("raise", "", "ConnectionError", o)>>
    /\ disconnected' = FailedDisconnected(o)
    /\ soon' = FailedSoon(o)
    /\ pend' = [pend EXCEPT ![o] = @ + CountCb(FailedEvents(o), "disconnected", o)]
    /\ ctrl' = [ctrl EXCEPT ![o] = FailedConnectionCtrl(ctrl[o], ex)]
    /\ UNCHANGED <<controllers, listeners, scan, tasks, dev, up, net, ops, ndiscov>>

(* ---------------------------- environment ------------------------------ *)

\* HTTP requests to the device start to fail, or succeed again.
TransportDown(u) ==
    /\ u \in net
    /\ up[u]
    /\ up' = [up EXCEPT ![u] = FALSE]
    /\ ev' = << >>
    /\ UNCHANGED <<ctrl, controllers, disconnected, listeners, soon, scan, tasks, calls, dev, net, ops, pend, ndiscov>>

TransportUp(u) ==
    /\ ~up[u]
    /\ up' = [up EXCEPT ![u] = TRUE]
    /\ ev' = << >>
    /\ UNCHANGED <<ctrl, controllers, disconnected, listeners, soon, scan, tasks, calls, dev, net, ops, pend, ndiscov>>

(* ------------------------------ listeners ------------------------------ *)

Listeners == {"l1", "l2", "lx"}

Range(seq) == {seq[i] : i \in 1..Len(seq)}

\* list.remove(x): the list without its first x.
RemoveFirst(seq, x) ==
    LET i == CHOOSE i \in 1..Len(seq) : seq[i] = x /\ \A j \in 1..(i - 1) : seq[j] # x
    IN SubSeq(seq, 1, i - 1) \o SubSeq(seq, i + 1, Len(seq))

\* An add_listener that replays the known controllers inside the call.
AddListenerInline(l) ==
    /\ l \in Listeners
    /\ l \notin Range(listeners)
    /\ ops < MaxOps
    /\ ops' = ops + 1
    /\ listeners' = Append(listeners, l)
    /\ ev' = <<Call("add_listener", l, 0, 0, -1)>>
                \o [i \in 1..Len(controllers) |-> Ev("cb", l, "discovered", controllers[i][2])]
                \o <<Ev("ret", "", "", 0)>>
    /\ UNCHANGED <<ctrl, controllers, disconnected, tasks, calls, dev, up, net, pend, ndiscov,
                   soon, scan>>

\* DiscoveryService.add_listener: the listener is appended and the replay of the
\* known controllers handed to loop.call_soon.
AddListener(l) ==
    /\ l \in Listeners
    /\ l \notin Range(listeners)
    /\ ops < MaxOps
    /\ ops' = ops + 1
    /\ listeners' = Append(listeners, l)
    /\ soon' = Append(soon, Handle("replay", l, controllers))
    /\ ev' = <<Call("add_listener", l, 0, 0, -1), Ev("ret", "", "", 0)>>
    /\ UNCHANGED <<ctrl, controllers, disconnected, tasks, calls, dev, up, net, pend, ndiscov, scan>>

\* DiscoveryService.remove_listener: list.remove raises ValueError for a
\* listener that is not in the list.
RemoveListener(l) ==
    /\ l \in Listeners
    /\ ops < MaxOps
    /\ ops' = ops + 1
    /\ IF l \in Range(listeners)
       THEN /\ listeners' = RemoveFirst(listeners, l)
            /\ ev' = <<Call("remove_listener", l, 0, 0, -1), Ev("ret", "", "", 0)>>
       ELSE /\ listeners' = listeners
            /\ ev' = <<Call("remove_listener", l, 0, 0, -1), Ev("raise", "", "ValueError", 0)>>
    /\ UNCHANGED <<ctrl, controllers, disconnected, tasks, calls, dev, up, net, pend, ndiscov, soon, scan>>

\* The callback of add_listener: controller_discovered for every controller of
\* the registry as it is now, to the listener of the call.  The calls are not
\* inside LogExceptions: an exception of the listener ends the callback.
Replay(l) ==
    LET all == [i \in 1..Len(controllers) |-> ListenerCall(l, "discovered", controllers[i][2], -1)]
    IN IF all # << >> /\ all[1].v = "raised"
       THEN <<all[1], Ev("raise", "", "Exception", 0)>>
       ELSE all

\* The event loop runs the callback of add_listener.
RunReplay ==
    /\ soon # << >>
    /\ Head(soon).k = "replay"
    /\ soon' = Tail(soon)
    /\ ev' = <<Ev("run", "", "replay", 0)>> \o Replay(Head(soon).l)
    /\ ndiscov' = [u \in UIDs |->
                     ndiscov[u] + Cardinality({i \in 1..Len(controllers) :
                                      Head(soon).l = "l1" /\ controllers[i][1] = u})]
    /\ UNCHANGED <<ctrl, controllers, disconnected, listeners, tasks, calls, dev, up, net, ops, pend, scan>>

(* ------------------------------ the scan loop -------------------------- *)

\* DiscoveryService.start_discovery, called by the task "main", up to
\* `await create_datagram_endpoint`.
StartDiscovery ==
    /\ scan.pc = "off"
    /\ scan' = [scan EXCEPT !.pc = "binding"]
    /\ ev' = <<Call("start_discovery", "", 0, 0, -1)>>
    /\ UNCHANGED <<ctrl, controllers, disconnected, listeners, tasks, calls, dev, up, net, ops,
                   pend, ndiscov, soon>>

\* DiscoveryService.connection_made: the transport is kept and the _scan_loop
\* task created; the endpoint then resolves the waiter of start_discovery, so
\* the first step of the task stands before the wake-up of start_discovery.
ConnectionMade ==
    /\ scan.pc = "binding"
    /\ IF scan.close_task # ""
       THEN /\ scan' = [scan EXCEPT !.pc = "done"]
            /\ soon' = soon \o <<Handle("started", "", << >>)>>
       ELSE /\ scan' = [scan EXCEPT !.pc = "ready", !.transport = "open"]
            /\ soon' = soon \o <<Handle("scan", "", << >>), Handle("started", "", << >>)>>
    /\ ev' = <<Ev("run", "", "connection_made", 0)>>
    /\ UNCHANGED <<ctrl, controllers, disconnected, listeners, tasks, calls, dev, up, net, ops,
                   pend, ndiscov>>

\* A scan loop that does not look at _close_task.
ScanLoopGoesOn(sc) == FALSE

\* DiscoveryService._scan_loop after its wait: `if self._close_task: return`.
ScanLoopReturns(sc) == sc.pc \in {"notified", "timedout"} /\ sc.close_task # ""

\* DiscoveryService._scan_loop: the timeout of the wait it starts,
\* `DISCOVERY_RESCAN if self._disconnected else DISCOVERY_SLEEP`.
ScanInterval(uids) == IF uids # {} THEN "rescan" ELSE "sleep"

\* DiscoveryService._send_broadcasts: the beacons that leave the socket.
SendBroadcasts(sc) ==
    IF sc.transport \in {"open", "closing"} THEN <<Ev("beacon", "", "", 0)>> ELSE << >>

\* DiscoveryService._scan_loop from its start or its wake-up to the next
\* `await self._scan_condition.wait()`, or to its return: one call of
\* _send_broadcasts unless it returns.
ScanLoopStep ==
    /\ soon # << >>
    /\ Head(soon).k = "scan"
    /\ soon' = Tail(soon)
    /\ IF ScanLoopReturns(scan)
       THEN /\ scan' = [scan EXCEPT !.pc = "done"]
            /\ ev' = <<Ev("run", "", "scan_loop", 0)>>
       ELSE /\ scan' = [scan EXCEPT !.pc = "wait", !.rounds = @ + 1,
                                    !.interval = ScanInterval(disconnected)]
            /\ ev' = <<Ev("run", "", "scan_loop", 0)>> \o SendBroadcasts(scan)
    /\ UNCHANGED <<ctrl, controllers, disconnected, listeners, tasks, calls, dev, up, net, ops,
                   pend, ndiscov>>

\* DiscoveryService.start_discovery after create_datagram_endpoint: it returns.
StartReturn ==
    /\ soon # << >>
    /\ Head(soon).k = "started"
    /\ soon' = Tail(soon)
    /\ scan' = [scan EXCEPT !.started = TRUE]
    /\ ev' = <<Ev("run", "", "start_return", 0), Ev("ret", "", "start_discovery", 0)>>
    /\ UNCHANGED <<ctrl, controllers, disconnected, listeners, tasks, calls, dev, up, net, ops,
                   pend, ndiscov>>

\* A notify that wakes nobody.
NotifyNobody(sc) == FALSE

\* Condition.notify of DiscoveryService._rescan finds the scan loop waiting,
\* its wait not ended yet.
NotifyWakes(sc) == sc.pc = "wait"

\* DiscoveryService._rescan: the scan loop and the handles after it.
RescanScan(sc) == IF NotifyWakes(sc) THEN [sc EXCEPT !.pc = "notified"] ELSE sc
RescanSoon(sc, q) == IF NotifyWakes(sc) THEN Append(q, Handle("scan", "", << >>)) ELSE q

\* DiscoveryService.is_closed
IsClosed(sc) ==
    IF sc.transport # "none" THEN sc.transport # "open" ELSE sc.close_task # ""

\* DiscoveryService.rescan: ConnectionError on a closed service; otherwise the
\* condition is free, so the call runs through without a suspension.
Rescan ==
    /\ ops < MaxOps
    /\ ops' = ops + 1
    /\ IF IsClosed(scan)
       THEN /\ ev' = <<Call("rescan", "", 0, 0, -1), Ev("raise", "", "ConnectionError", 0)>>
            /\ UNCHANGED <<scan, soon>>
       ELSE /\ scan' = RescanScan(scan)
            /\ soon' = RescanSoon(scan, soon)
            /\ ev' = <<Call("rescan", "", 0, 0, -1), Ev("ret", "", "", 0)>>
    /\ UNCHANGED <<ctrl, controllers, disconnected, listeners, tasks, calls, dev, up, net,
                   pend, ndiscov>>

\* The event loop runs the _rescan task of controller_disconnected.
RescanTask ==
    /\ soon # << >>
    /\ Head(soon).k = "rescan"
    /\ scan' = RescanScan(scan)
    /\ soon' = RescanSoon(scan, Tail(soon))
    /\ ev' = <<Ev("run", "", "rescan_task", 0)>>
    /\ UNCHANGED <<ctrl, controllers, disconnected, listeners, tasks, calls, dev, up, net, ops,
                   pend, ndiscov>>

\* The timeout around the wait of _scan_loop expires: the wait is cancelled,
\* the TimeoutError swallowed.
ScanTimeout ==
    /\ scan.pc = "wait"
    /\ scan.rounds < MaxRounds
    /\ scan' = [scan EXCEPT !.pc = "timedout"]
    /\ soon' = Append(soon, Handle("scan", "", << >>))
    /\ ev' = <<Ev("run", "", "scan_timeout", 0)>>
    /\ UNCHANGED <<ctrl, controllers, disconnected, listeners, tasks, calls, dev, up, net, ops,
                   pend, ndiscov>>

(* ------------------------------- closing ------------------------------- *)

\* The tasks of the application that call close().
AppTasks == {"main", "other"}

\* The _scan_loop task is in self._tasks: created and not finished.
ScanAlive(sc) == sc.pc \in {"ready", "wait", "notified", "timedout"}

\* The coroutines of self._tasks besides the scan loop: the children of a
\* gather that outlived their _retry_connection are not among them.
Tracked == {t \in BagToSet(tasks) : t.kind # "orphan"}

\* transport.close(): the socket stays open until the transport has called
\* connection_lost, which it does through loop.call_soon.
TransportClose(sc) == IF sc.transport = "open" THEN [sc EXCEPT !.transport = "closing"] ELSE sc
TransportCloseSoon(sc, q) ==
    IF sc.transport = "open" THEN Append(q, Handle("lost", "", << >>)) ELSE q

\* DiscoveryService.close run by `task`, the handles q before it: up to its
\* first suspension.  A later call awaits the task of the first call, and a
\* task that awaits itself gets RuntimeError; the first call closes the
\* transport, notifies the scan loop and waits for self._tasks, and
\* asyncio.wait raises ValueError for an empty set.
CloseFrom(head, task, q) ==
    IF scan.close_task # ""
    THEN IF task = scan.close_task
         THEN /\ ev' = head \o <<Ev("raise", "", "RuntimeError", 0)>>
              /\ scan' = scan
              /\ soon' = q
         ELSE /\ ev' = head
              /\ scan' = [scan EXCEPT !.again = @ \cup {task}]
              /\ soon' = q
    ELSE LET sc1 == [TransportClose(scan) EXCEPT !.close_task = task]
             sc2 == RescanScan(sc1)
             empty == ~ScanAlive(sc2) /\ Tracked = {}
         IN /\ scan' = [sc2 EXCEPT !.close = IF empty THEN "raised" ELSE "wait"]
            /\ soon' = RescanSoon(sc1, TransportCloseSoon(scan, q))
            /\ ev' = head \o (IF empty THEN <<Ev("raise", "", "ValueError", 0)>> ELSE << >>)

\* The application calls close() in one of its tasks; a task that is inside
\* close(), or "main" inside start_discovery, makes no other call.
Close(task) ==
    /\ task \in AppTasks
    /\ task \notin scan.again
    /\ task = "main" => scan.pc = "off" \/ scan.started
    /\ task = scan.close_task => scan.close \in {"done", "raised"}
    /\ ops < MaxOps
    /\ ops' = ops + 1
    /\ CloseFrom(<<Call("close", task, 0, 0, -1)>>, task, soon)
    /\ UNCHANGED <<ctrl, controllers, disconnected, listeners, tasks, calls, dev, up, net,
                   pend, ndiscov>>

\* The UDP transport fails: it stops reading and will call connection_lost.
TransportLost ==
    /\ scan.transport = "open"
    /\ scan' = [scan EXCEPT !.transport = "lost"]
    /\ soon' = Append(soon, Handle("lost", "", << >>))
    /\ ev' = <<Ev("run", "", "transport_lost", 0)>>
    /\ UNCHANGED <<ctrl, controllers, disconnected, listeners, tasks, calls, dev, up, net, ops,
                   pend, ndiscov>>

\* DiscoveryService.connection_lost: a task for close() unless close() was
\* called already.  The transport closes its socket after the call.
ConnectionLost ==
    /\ soon # << >>
    /\ Head(soon).k = "lost"
    /\ scan' = [scan EXCEPT !.transport = "closed"]
    /\ soon' = IF scan.close_task = "" THEN Append(Tail(soon), Handle("close", "lost", << >>))
               ELSE Tail(soon)
    /\ ev' = <<Ev("run", "", "connection_lost", 0)>>
    /\ UNCHANGED <<ctrl, controllers, disconnected, listeners, tasks, calls, dev, up, net, ops,
                   pend, ndiscov>>

\* The event loop runs the first step of the close() task of connection_lost.
CloseTask ==
    /\ soon # << >>
    /\ Head(soon).k = "close"
    /\ CloseFrom(<<Ev("run", "", "close_task", 0)>>, Head(soon).l, Tail(soon))
    /\ UNCHANGED <<ctrl, controllers, disconnected, listeners, tasks, calls, dev, up, net, ops,
                   pend, ndiscov>>

\* DiscoveryService.close: asyncio.wait(self._tasks) is through, every task
\* it was given has finished; close() returns.
CloseReturn ==
    /\ scan.close = "wait"
    /\ ~ScanAlive(scan)
    /\ Tracked = {}
    /\ scan' = [scan EXCEPT !.close = "done"]
    /\ ev' = <<Ev("ret", scan.close_task, "close", 0)>>
    /\ UNCHANGED <<ctrl, controllers, disconnected, listeners, tasks, calls, dev, up, net, ops,
                   pend, ndiscov, soon>>

\* DiscoveryService.close, a later call: `await self._close_task` is through,
\* the task of the first call has ended; close() returns.
CloseAgainReturn(task) ==
    /\ task \in scan.again
    /\ scan.close \in {"done", "raised"}
    /\ scan' = [scan EXCEPT !.again = @ \ {task}]
    /\ ev' = <<Ev("ret", task, "close", 0)>>
    /\ UNCHANGED <<ctrl, controllers, disconnected, listeners, tasks, calls, dev, up, net, ops,
                   pend, ndiscov, soon>>

(* ---------------------------- specifications --------------------------- *)

\* The state after DiscoveryService.__init__ and discovery(l1), the devices of
\* `devices` on the network.
InitWith(devices) ==
    /\ net = devices
    /\ ops = 0
    /\ ctrl = [o \in Slots |-> FreeCtrl]
    /\ controllers = << >>
    /\ disconnected = {}
    /\ listeners = <<"l1">>
    /\ tasks = EmptyBag
    /\ calls = EmptyBag
    /\ dev = [u \in UIDs |-> [sys |-> DeviceSystem(u), zones |-> DeviceZones(u)]]
    /\ up = [u \in UIDs |-> TRUE]
    /\ pend = [o \in Slots |-> 0]
    /\ ndiscov = [u \in UIDs |-> 0]
    /\ soon = << >>
    /\ scan = ScanOff
    /\ ev = << >>

\* The Controller object of device u once Controller._initialize is through,
\* the device answering with `sys` and `zones`.
Initialised(u, ip, sys, zones) ==
    [RefreshZoneGroupCtrl(InitializeSystemCtrl(NewController(u, ip), sys), zones)
        EXCEPT !.initialised = TRUE]

\* The state of the tests' `service` fixture: the reply of device 000000001 at
\* 8.8.8.8 was processed, the controller is initialised and registered, and l1
\* was told.  freeAir: the FreeAir field of the device.
Fixture(freeAir) ==
    LET u == "000000001"
        sys == [DeviceSystem(u) EXCEPT !.FreeAir = freeAir]
    IN /\ net = {u}
       /\ ops = 0
       /\ ctrl = [o \in Slots |->
                    IF o = 1 THEN Initialised(u, "8.8.8.8", sys, DeviceZones(u)) ELSE FreeCtrl]
       /\ controllers = << <<u, 1>> >>
       /\ disconnected = {}
       /\ listeners = <<"l1">>
       /\ tasks = EmptyBag
       /\ calls = EmptyBag
       /\ dev = [v \in UIDs |-> [sys |-> IF v = u THEN sys ELSE DeviceSystem(v),
                                 zones |-> DeviceZones(v)]]
       /\ up = [v \in UIDs |-> TRUE]
       /\ pend = [o \in Slots |-> 0]
       /\ ndiscov = [v \in UIDs |-> IF v = u THEN 1 ELSE 0]
       /\ soon = << >>
       /\ scan = ScanOff
       /\ ev = << >>

\* The setter calls the application makes in Spec: <<setter, val, num>>.
SpecArgs == {<<"set_mode", "cool", 0>>, <<"set_mode", "heat", 0>>}

SpecZoneArgs == {<<"set_mode", "close", 0>>}

\* Connection health, refreshes and setters of one registered controller.
Init == Fixture("disabled")

Health ==
    \/ \E uid \in UIDs, ip \in IPs : DiscoveryKnown(uid, ip)
    \/ \E o \in Slots, kind \in RefreshKinds : RefreshSystemOk(o, kind)
    \/ \E o \in Slots, kind \in RefreshKinds : RefreshZonesOk(o, kind)
    \/ \E o \in Slots, kind \in RefreshKinds, which \in {"sys", "zon"}, ex \in Errors :
          RefreshFail(o, kind, which, ex)
    \/ \E o \in Slots : RetryFinish(o)
    \/ \E which \in {"sys", "zon"}, addr \in IPs : ProcessChanged(which, addr)
    \/ \E u \in UIDs : TransportDown(u)
    \/ \E u \in UIDs : TransportUp(u)

Next ==
    \/ Health
    \/ \E o \in Slots, a \in SpecArgs : CallSetter(o, a[1], a[2], a[3])
    \/ \E o \in Slots : AcquireLock(o)
    \/ \E o \in Slots, applied \in BOOLEAN : SendOk(o, applied)
    \/ \E o \in Slots, ex \in Errors : SendFail(o, ex)
    \/ \E o \in Slots : RefetchOk(o)
    \/ \E o \in Slots, ex \in Errors : RefetchFail(o, ex)
    \/ \E o \in Slots, a \in SpecZoneArgs : CallZoneSetter(o, 0, a[1], a[2], a[3])
    \/ \E o \in Slots, applied \in BOOLEAN : ZoneSendOk(o, applied)
    \/ \E o \in Slots, ex \in Errors : ZoneSendFail(o, ex)
    \/ \E o \in Slots : ReadSystem(o)
    \/ \E o \in Slots : ReadZone(o, 0)

Spec == Init /\ [][Next]_vars

\* Every setter of the controller and of zone 0, the free-air option present.
SetterInit == \E freeAir \in {"off", "on"} : Fixture(freeAir)

SetterArgs ==
    {<<"set_on", "True", 0>>, <<"set_on", "False", 0>>,
     <<"set_mode", "heat", 0>>, <<"set_mode", "cool", 0>>,
     <<"set_fan", "low", 0>>, <<"set_fan", "auto", 0>>,
     <<"set_sleep_timer", "", 0>>, <<"set_sleep_timer", "", 30>>,
     <<"set_free_air", "False", 0>>, <<"set_free_air", "True", 0>>,
     <<"set_temp_setpoint", "", 240>>, <<"set_temp_setpoint", "", 250>>}

SetterZoneArgs ==
    {<<"set_airflow_min", "", 0>>, <<"set_airflow_min", "", 40>>,
     <<"set_airflow_max", "", 100>>, <<"set_airflow_max", "", 60>>,
     <<"set_temp_setpoint", "", 240>>, <<"set_temp_setpoint", "", 250>>,
     <<"set_mode", "open", 0>>, <<"set_mode", "close", 0>>}

SetterNext ==
    \/ \E o \in Slots, a \in SetterArgs : CallSetter(o, a[1], a[2], a[3])
    \/ \E o \in Slots : AcquireLock(o)
    \/ \E o \in Slots, applied \in BOOLEAN : SendOk(o, applied)
    \/ \E o \in Slots, ex \in Errors : SendFail(o, ex)
    \/ \E o \in Slots : RefetchOk(o)
    \/ \E o \in Slots, ex \in Errors : RefetchFail(o, ex)
    \/ \E o \in Slots : SleepDone(o)
    \/ \E o \in Slots, a \in SetterZoneArgs : CallZoneSetter(o, 0, a[1], a[2], a[3])
    \/ \E o \in Slots, applied \in BOOLEAN : ZoneSendOk(o, applied)
    \/ \E o \in Slots, ex \in Errors : ZoneSendFail(o, ex)
    \/ \E u \in UIDs : TransportDown(u)
    \/ \E u \in UIDs : TransportUp(u)

SetterSpec == SetterInit /\ [][SetterNext]_vars

\* Every request to the device completes or times out, the event loop wakes a
\* waiter of a released lock, and the sleep of set_mode ends.
SetterLive ==
    /\ SetterSpec
    /\ \A o \in Slots :
          /\ WF_vars(AcquireLock(o))
          /\ WF_vars(\/ \E applied \in BOOLEAN : SendOk(o, applied)
                     \/ \E ex \in Errors : SendFail(o, ex))
          /\ WF_vars(\/ RefetchOk(o)
                     \/ \E ex \in Errors : RefetchFail(o, ex))
          /\ WF_vars(SleepDone(o))

\* Discovery, initialization and reconnection from an empty registry.
DiscInit == InitWith({"000000001"})

DiscNext ==
    \/ \E uid \in UIDs, ip \in IPs : DiscoveryNew(uid, ip)
    \/ \E uid \in UIDs, ip \in IPs : DiscoveryKnown(uid, ip)
    \/ \E o \in Slots : InitSystemOk(o)
    \/ \E o \in Slots, ex \in Errors : InitFail(o, ex)
    \/ \E o \in Slots : InitZonesOk(o)
    \/ \E o \in Slots, kind \in RefreshKinds : RefreshSystemOk(o, kind)
    \/ \E o \in Slots, kind \in RefreshKinds : RefreshZonesOk(o, kind)
    \/ \E o \in Slots, kind \in RefreshKinds, which \in {"sys", "zon"}, ex \in Errors :
          RefreshFail(o, kind, which, ex)
    \/ \E o \in Slots : RetryFinish(o)
    \/ \E o \in Slots, a \in SpecZoneArgs : CallZoneSetter(o, 0, a[1], a[2], a[3])
    \/ \E o \in Slots, applied \in BOOLEAN : ZoneSendOk(o, applied)
    \/ \E o \in Slots, ex \in Errors : ZoneSendFail(o, ex)
    \/ \E u \in UIDs : TransportDown(u)
    \/ \E u \in UIDs : TransportUp(u)

DiscSpec == DiscInit /\ [][DiscNext]_vars

\* Datagrams of every shape, from an empty registry.
DgramNext ==
    \/ \E i \in 1..Len(Datagrams), addr \in IPs : DatagramReceived(i, addr)
    \/ \E o \in Slots : InitSystemOk(o)
    \/ \E o \in Slots, ex \in Errors : InitFail(o, ex)
    \/ \E o \in Slots : InitZonesOk(o)
    \/ \E o \in Slots, kind \in RefreshKinds : RefreshSystemOk(o, kind)
    \/ \E o \in Slots, kind \in RefreshKinds : RefreshZonesOk(o, kind)
    \/ \E o \in Slots, kind \in RefreshKinds, which \in {"sys", "zon"}, ex \in Errors :
          RefreshFail(o, kind, which, ex)
    \/ \E o \in Slots : RetryFinish(o)
    \/ \E u \in UIDs : TransportDown(u)
    \/ \E u \in UIDs : TransportUp(u)

DgramSpec == DiscInit /\ [][DgramNext]_vars

\* A second listener comes and goes while controllers are discovered and the
\* zones of a controller set.
ListenerNext ==
    \/ \E l \in {"l2"} : AddListener(l)
    \/ \E l \in {"l2"} : RemoveListener(l)
    \/ RunReplay
    \/ \E uid \in UIDs, ip \in IPs : DiscoveryNew(uid, ip)
    \/ \E o \in Slots : InitSystemOk(o)
    \/ \E o \in Slots : InitZonesOk(o)
    \/ \E o \in Slots, a \in SpecZoneArgs : CallZoneSetter(o, 0, a[1], a[2], a[3])
    \/ \E o \in Slots, applied \in BOOLEAN : ZoneSendOk(o, applied)

ListenerSpec == DiscInit /\ [][ListenerNext]_vars

\* The service of the fixture is started and rescanned while a zone setter
\* loses the connection.
ScanNext ==
    \/ StartDiscovery
    \/ ConnectionMade
    \/ ScanLoopStep
    \/ StartReturn
    \/ Rescan
    \/ RescanTask
    \/ ScanTimeout
    \/ \E o \in Slots, a \in SpecZoneArgs : CallZoneSetter(o, 0, a[1], a[2], a[3])
    \/ \E o \in Slots, applied \in BOOLEAN : ZoneSendOk(o, applied)
    \/ \E o \in Slots, ex \in Errors : ZoneSendFail(o, ex)
    \/ \E u \in UIDs : TransportDown(u)
    \/ \E u \in UIDs : TransportUp(u)

ScanSpec == Init /\ [][ScanNext]_vars

\* The datagrams that reach the service while it is started and closed: a
\* reply of device 000000001 and a system-changed notification.
CloseDatagrams == {2, 5}

\* The service is started and closed, by the application or because the
\* transport is lost, while a controller is discovered and initialised.
CloseNext ==
    \/ StartDiscovery
    \/ ConnectionMade
    \/ ScanLoopStep
    \/ StartReturn
    \/ ScanTimeout
    \/ Rescan
    \/ \E task \in AppTasks : Close(task)
    \/ TransportLost
    \/ ConnectionLost
    \/ CloseTask
    \/ CloseReturn
    \/ \E task \in AppTasks : CloseAgainReturn(task)
    \/ \E i \in CloseDatagrams : DatagramReceived(i, "8.8.8.8")
    \/ \E o \in Slots : InitSystemOk(o)
    \/ \E o \in Slots : InitZonesOk(o)

CloseSpec == DiscInit /\ [][CloseNext]_vars

\* Calls of the application on the fixture's controller and service, a second
\* listener coming and going, the device reachable or not.
CallbackNext ==
    \/ \E l \in {"l2"} : AddListener(l)
    \/ \E l \in {"l2"} : RemoveListener(l)
    \/ RunReplay
    \/ \E o \in Slots, a \in SpecArgs : CallSetter(o, a[1], a[2], a[3])
    \/ \E o \in Slots : AcquireLock(o)
    \/ \E o \in Slots, applied \in BOOLEAN : SendOk(o, applied)
    \/ \E o \in Slots, ex \in Errors : SendFail(o, ex)
    \/ \E o \in Slots : RefetchOk(o)
    \/ \E o \in Slots, ex \in Errors : RefetchFail(o, ex)
    \/ \E o \in Slots, a \in SpecZoneArgs : CallZoneSetter(o, 0, a[1], a[2], a[3])
    \/ \E o \in Slots, applied \in BOOLEAN : ZoneSendOk(o, applied)
    \/ \E o \in Slots, ex \in Errors : ZoneSendFail(o, ex)
    \/ \E o \in Slots : ReadSystem(o)
    \/ \E u \in UIDs : TransportDown(u)
    \/ \E u \in UIDs : TransportUp(u)

CallbackSpec == Init /\ [][CallbackNext]_vars

\* The event loop runs every handle it was given, and a timer that is due fires.
CloseLive ==
    /\ CloseSpec
    /\ WF_vars(ConnectionLost)
    /\ WF_vars(CloseTask)
    /\ WF_vars(ScanLoopStep)
    /\ WF_vars(ScanTimeout)

\* The service after `await start_discovery()` on an empty registry: the
\* endpoint is up, the scan loop sent its first round of beacons and waits for
\* DISCOVERY_SLEEP.
ScanStarted ==
    [ScanOff EXCEPT !.pc = "wait", !.rounds = 1, !.started = TRUE, !.interval = "sleep",
                    !.transport = "open"]

StartedInit ==
    /\ net = {"000000001"}
    /\ ops = 0
    /\ ctrl = [o \in Slots |-> FreeCtrl]
    /\ controllers = << >>
    /\ disconnected = {}
    /\ listeners = <<"l1">>
    /\ tasks = EmptyBag
    /\ calls = EmptyBag
    /\ dev = [u \in UIDs |-> [sys |-> DeviceSystem(u), zones |-> DeviceZones(u)]]
    /\ up = [u \in UIDs |-> TRUE]
    /\ pend = [o \in Slots |-> 0]
    /\ ndiscov = [u \in UIDs |-> 0]
    /\ soon = << >>
    /\ scan = ScanStarted
    /\ ev = << >>

\* Controllers are discovered, lose the connection (a failing zone setter)
\* and are reconnected while the scan loop runs.  The loop runs the handles in
\* its ready queue before it takes what reaches it from outside: datagrams, the
\* answers of the device or their absence, the steps of the application's
\* tasks and the timer of the scan loop.
IntervalNext ==
    \/ ScanLoopStep
    \/ RescanTask
    \/ soon = << >> /\ DiscoveryNew("000000001", "8.8.8.8")
    \/ soon = << >> /\ DiscoveryKnown("000000001", "8.8.8.8")
    \/ soon = << >> /\ \E o \in Slots : InitSystemOk(o)
    \/ soon = << >> /\ \E o \in Slots : InitZonesOk(o)
    \/ soon = << >> /\ \E o \in Slots : RefreshSystemOk(o, "retry")
    \/ soon = << >> /\ \E o \in Slots : RefreshZonesOk(o, "retry")
    \/ soon = << >> /\ \E o \in Slots : RetryFinish(o)
    \/ soon = << >> /\ \E o \in Slots, a \in SpecZoneArgs : CallZoneSetter(o, 0, a[1], a[2], a[3])
    \/ soon = << >> /\ \E o \in Slots : ZoneSendFail(o, "TimeoutError")
    \/ soon = << >> /\ TransportDown("000000001")
    \/ soon = << >> /\ TransportUp("000000001")
    \/ soon = << >> /\ ScanTimeout

IntervalSpec == StartedInit /\ [][IntervalNext]_vars

\* The datagrams of PushSpec: the beacon echo, the three notifications and the
\* replies of device 000000001 from its two addresses.
PushDatagrams == 1..6

\* Notifications arrive from both addresses while the controller is
\* discovered, refreshed, disconnected and reconnected.
PushNext ==
    \/ \E i \in PushDatagrams, addr \in IPs : DatagramReceived(i, addr)
    \/ \E o \in Slots : InitSystemOk(o)
    \/ \E o \in Slots, ex \in Errors : InitFail(o, ex)
    \/ \E o \in Slots : InitZonesOk(o)
    \/ \E o \in Slots, kind \in RefreshKinds : RefreshSystemOk(o, kind)
    \/ \E o \in Slots, kind \in RefreshKinds : RefreshZonesOk(o, kind)
    \/ \E o \in Slots, kind \in RefreshKinds, which \in {"sys", "zon"}, ex \in Errors :
          RefreshFail(o, kind, which, ex)
    \/ \E o \in Slots : RetryFinish(o)
    \/ \E u \in UIDs : TransportDown(u)
    \/ \E u \in UIDs : TransportUp(u)

PushSpec == DiscInit /\ [][PushNext]_vars

(* --------------------- responses on their way -------------------------- *)

\* In RaceSpec the answer of the device to a SystemSettings request and the
\* arrival of the response are two steps: `session.get` of a refresh that
\* starts while another one is unanswered uses a connection of its own, and
\* the two responses reach the event loop in either order.

\* A push-triggered _refresh_system whose response is on its way; got: the
\* settings the device put into it.
TaskSent(o, got) == [kind |-> "push", o |-> o, sys |-> "sent", zon |-> "-", got |-> got]

\* A setter call whose re-fetch response is on its way.
CallSent(k, got) ==
    [o |-> k.o, z |-> k.z, key |-> k.key, cmd |-> k.cmd, val |-> k.val, num |-> k.num,
     send |-> k.send, then |-> k.then, pc |-> "reply", before |-> k.before, got |-> got]

\* The device answers the request of a push-triggered _refresh_system.
RefreshSystemReplied(o) ==
    /\ Answered(o)
    /\ \E t \in BagToSet(tasks) :
          /\ t.kind = "push" /\ t.o = o /\ t.sys = "wait"
          /\ tasks' = Put(Take(tasks, t), TaskSent(o, dev[ctrl[o].uid].sys))
    /\ ev' = << >>
    /\ UNCHANGED <<ctrl, controllers, disconnected, listeners, soon, scan, calls, dev, up, net, ops, pend, ndiscov>>

\* Controller._refresh_system of a push-triggered refresh: the response arrives.
RefreshSystemArrived(o) ==
    /\ ctrl[o].live
    /\ \E t \in BagToSet(tasks) :
          /\ t.kind = "push" /\ t.o = o /\ t.sys = "sent"
          /\ tasks' = Take(tasks, t)
          /\ ctrl' = [ctrl EXCEPT ![o] = RefreshSystemCtrl(ctrl[o], t.got)]
          /\ ev' = <<Ev("run", "", "refresh_system_arrived", o)>> \o
                   (IF RefreshSystemNotifies(ctrl[o], t.got, TRUE)
                    THEN FanOut("controller_update", o) ELSE << >>)
    /\ UNCHANGED <<controllers, disconnected, listeners, soon, scan, calls, dev, up, net, ops, pend, ndiscov>>

\* The device answers the re-fetch of Controller._set_system_state.
RefetchReplied(o) ==
    /\ Answered(o)
    /\ \E k \in BagToSet(calls) :
          /\ k.o = o /\ k.pc = "refetch"
          /\ calls' = Put(Take(calls, k), CallSent(k, dev[ctrl[o].uid].sys))
    /\ ev' = << >>
    /\ UNCHANGED <<ctrl, controllers, disconnected, listeners, soon, scan, tasks, dev, up, net, ops, pend, ndiscov>>

\* The immediate _refresh_system of _set_system_state: the response arrives,
\* the lock is released and the setter returns.
RefetchArrived(o) ==
    /\ ctrl[o].live
    /\ \E k \in BagToSet(calls) :
          /\ k.o = o /\ k.pc = "reply"
          /\ AfterSet(k, o)
          /\ ctrl' = [ctrl EXCEPT ![o] =
                        [RefreshSystemCtrl(ctrl[o], k.got) EXCEPT !.locked = FALSE]]
          /\ ev' = <<Ev("run", "", "refetch_arrived", o)>> \o
                   (IF RefreshSystemNotifies(ctrl[o], k.got, TRUE)
                    THEN FanOut("controller_update", o) ELSE << >>)
                   \o AfterSetEvents(k, o)
    /\ UNCHANGED <<controllers, disconnected, listeners, soon, scan, tasks, dev, up, net, ops, pend, ndiscov>>

\* Controller setters and system-changed notifications of one registered
\* controller, every response on its way for a while.
RaceNext ==
    \/ \E addr \in IPs : ProcessChanged("sys", addr)
    \/ \E o \in Slots, a \in SpecArgs : CallSetter(o, a[1], a[2], a[3])
    \/ \E o \in Slots : AcquireLock(o)
    \/ \E o \in Slots, applied \in BOOLEAN : SendOk(o, applied)
    \/ \E o \in Slots, ex \in Errors : SendFail(o, ex)
    \/ \E o \in Slots : RefetchReplied(o)
    \/ \E o \in Slots : RefetchArrived(o)
    \/ \E o \in Slots, ex \in Errors : RefetchFail(o, ex)
    \/ \E o \in Slots : RefreshSystemReplied(o)
    \/ \E o \in Slots : RefreshSystemArrived(o)
    \/ \E o \in Slots, ex \in Errors : RefreshFail(o, "push", "sys", ex)
    \/ \E u \in UIDs : TransportDown(u)
    \/ \E u \in UIDs : TransportUp(u)

RaceSpec == Init /\ [][RaceNext]_vars

(* ------------------------------ zone groups ---------------------------- *)

\* The zone totals of the devices of GroupSpec: one, two and three groups.
ZoneTotals == {2, 5, 9}

\* `range(0, zones, 4)`, for at most twelve zones (`assert group in [0, 4, 8]`).
ZoneGroups(zones) == {g \in {0, 4, 8} : g < zones}

\* "Zones{0}_{1}".format(group+1, group+4)
ZoneResource(group) ==
    CASE group = 0 -> "Zones1_4" [] group = 4 -> "Zones5_8" [] group = 8 -> "Zones9_12"

\* The requests of a _refresh_zones over these groups, in the order of the gather.
RECURSIVE ZoneRequests(_, _)
ZoneRequests(o, groups) ==
    IF groups = {} THEN << >>
    ELSE LET g == CHOOSE g \in groups : \A h \in groups : g <= h
         IN <<Ev("get", "", ZoneResource(g), o)>> \o ZoneRequests(o, groups \ {g})

\* The device's answer to the request for group `group`: four entries, the
\* slots beyond its zone total unused.
ZoneGroupResponse(d, group) ==
    [i \in 1..4 |-> IF group + i <= Len(d.zones) THEN d.zones[group + i]
                    ELSE DeviceZone(group + i - 1)]

\* A _refresh_zones at its gather.  kind: "init" (inside Controller._initialize),
\* "push" (inside _wrap_update), "stray" (requests of a gather that has raised);
\* groups: the groups not answered yet; notify: its `notify` argument.
GroupTask(kind, o, groups, notify) ==
    [kind |-> kind, o |-> o, sys |-> IF kind = "init" THEN "ok" ELSE "-", zon |-> "wait",
     groups |-> groups, notify |-> notify]

\* A _refresh_zone_group that writes every group to the first four zones.
RefreshZoneGroupFirst(c, group, part, upto) ==
    [c EXCEPT !.zones =
        [i \in 1..Len(c.zones) |-> IF i <= Min(upto, Len(c.zones)) THEN part[i] ELSE c.zones[i]]]

\* Controller._refresh_zone_group: the zones after Zone._update_zone was called
\* for the first `upto` entries of the response.
RefreshZoneGroup(c, group, part, upto) ==
    [c EXCEPT !.zones =
        [i \in 1..Len(c.zones) |->
            IF i > group /\ i <= group + upto THEN part[i - group] ELSE c.zones[i]]]

\* `range(min(len(self.zones)-group, 4))`
GroupLen(c, group) ==
    IF Len(c.zones) - group < 0 THEN 0 ELSE Min(Len(c.zones) - group, 4)

\* A Zone._update_zone that takes any index.
IndexMismatchIgnored(c, group, part) == {}

\* Zone._update_zone raises: the positions of the response whose Index is not
\* the index of the zone in that slot.
IndexMismatch(c, group, part) ==
    {i \in 1..GroupLen(c, group) : part[i].Index # c.zones[group + i].Index}

\* The entries of the response Zone._update_zone accepts before one raises.
Accepted(c, group, part) ==
    LET bad == IndexMismatch(c, group, part)
    IN IF bad = {} THEN GroupLen(c, group)
       ELSE (CHOOSE i \in bad : \A j \in bad : i <= j) - 1

\* zone_update for the zones a .. b-1 of o, in order.
RECURSIVE FanOutRange(_, _, _)
FanOutRange(o, a, b) ==
    IF b <= a THEN << >> ELSE FanOutRange(o, a, b - 1) \o FanOutZone(o, b - 1)

\* Controller._initialize after the SystemSettings response: the zone list is
\* built and _refresh_zones requests every group.
GroupInitSystemOk(o) ==
    /\ BagIn(Task("init", o, "wait", "-"), tasks)
    /\ Answered(o)
    /\ LET c == InitializeSystemCtrl(ctrl[o], dev[ctrl[o].uid].sys)
           groups == ZoneGroups(c.settings.NoOfZones)
       IN /\ ctrl' = [ctrl EXCEPT ![o] = c]
          /\ tasks' = Put(Take(tasks, Task("init", o, "wait", "-")),
                          GroupTask("init", o, groups, FALSE))
          /\ ev' = <<Ev("run", "", "init_system_ok", o)>> \o ZoneRequests(o, groups)
    /\ UNCHANGED <<controllers, disconnected, listeners, soon, scan, calls, dev, up, net, ops, pend, ndiscov>>

\* DiscoveryService._process_datagram for CHANGED_ZONES from address addr:
\* _refresh_zones(notify=True) requests every group.
ProcessChangedZones(addr) ==
    /\ FindByAddr(addr) # 0
    /\ NumTasks < MaxPush
    /\ LET o == FindByAddr(addr)
           groups == ZoneGroups(ctrl[o].settings.NoOfZones)
       IN /\ tasks' = Put(tasks, GroupTask("push", o, groups, TRUE))
          /\ ev' = <<Ev("run", "", "changed", o)>> \o ZoneRequests(o, groups)
    /\ UNCHANGED <<ctrl, controllers, disconnected, listeners, soon, scan, calls, dev, up, net, ops, pend, ndiscov>>

\* The task bag after the response for group g of task t was handled; bad:
\* Zone._update_zone raised.  The gather raises the exception into the task,
\* which ends with it; the requests of the other groups go on.
GroupRest(t, g, bad) ==
    LET rest == t.groups \ {g}
    IN IF bad
       THEN IF rest = {} \/ t.kind = "init" THEN Take(tasks, t)
            ELSE Put(Take(tasks, t), GroupTask("stray", t.o, rest, t.notify))
       ELSE IF rest = {} THEN Take(tasks, t)
            ELSE Put(Take(tasks, t), [t EXCEPT !.groups = rest])

\* Controller._refresh_zone_group: the response for group g arrives.
ZoneGroupOk(o, g) ==
    /\ Answered(o)
    /\ \E t \in BagToSet(tasks) :
          /\ t.o = o /\ t.zon = "wait" /\ g \in t.groups
          /\ LET part == ZoneGroupResponse(dev[ctrl[o].uid], g)
                 upto == Accepted(ctrl[o], g, part)
                 bad == IndexMismatch(ctrl[o], g, part) # {}
                 done == ~bad /\ t.groups = {g}
                 c == RefreshZoneGroup(ctrl[o], g, part, upto)
                 found == IF t.kind = "init" /\ done THEN FanOut("discovered", o) ELSE << >>
             IN /\ tasks' = GroupRest(t, g, bad)
                /\ ctrl' = [ctrl EXCEPT ![o] =
                              IF t.kind = "init" /\ bad THEN FreeCtrl
                              ELSE IF t.kind = "init" /\ done THEN [c EXCEPT !.initialised = TRUE]
                              ELSE c]
                /\ controllers' = IF t.kind = "init" /\ done THEN Register(ctrl[o].uid, o)
                                  ELSE controllers
                /\ ev' = <<EvZ("run", "", "zone_group_ok", o, g)>>
                         \o (IF t.notify THEN FanOutRange(o, g, g + upto) ELSE << >>)
                         \o (IF bad /\ t.kind # "stray"
                             THEN <<EvZ("raise", "", "AttributeError", o, g + upto)>> ELSE << >>)
                         \o found
                /\ ndiscov' = [ndiscov EXCEPT ![ctrl[o].uid] = @ + CountCb(found, "discovered", o)]
    /\ UNCHANGED <<disconnected, listeners, soon, scan, calls, dev, up, net, ops, pend>>

\* The installer changes the number of zones of the device.
DeviceReconfigured(u, n) ==
    /\ u \in net
    /\ n \in ZoneTotals
    /\ n # dev[u].sys.NoOfZones
    /\ dev' = [dev EXCEPT ![u].sys.NoOfZones = n,
                          ![u].zones = [i \in 1..n |-> IF i <= Len(@) THEN @[i] ELSE DeviceZone(i - 1)]]
    /\ ev' = << >>
    /\ UNCHANGED <<ctrl, controllers, disconnected, listeners, soon, scan, tasks, calls, up, net, ops, pend, ndiscov>>

\* Somebody closes zone i of the device at the wall panel.
DeviceZoneChanged(u, i) ==
    /\ u \in net
    /\ i < Len(dev[u].zones)
    /\ dev[u].zones[i + 1].Mode = "open"
    /\ dev' = [dev EXCEPT ![u].zones[i + 1].Mode = "close"]
    /\ ev' = << >>
    /\ UNCHANGED <<ctrl, controllers, disconnected, listeners, soon, scan, tasks, calls, up, net, ops, pend, ndiscov>>

\* The device starts to report zone i under the next index.
DeviceRenumbers(u, i) ==
    /\ u \in net
    /\ i < Len(dev[u].zones)
    /\ dev[u].zones[i + 1].Index = i
    /\ dev' = [dev EXCEPT ![u].zones[i + 1].Index = i + 1]
    /\ ev' = << >>
    /\ UNCHANGED <<ctrl, controllers, disconnected, listeners, soon, scan, tasks, calls, up, net, ops, pend, ndiscov>>

\* The zones somebody changes at the device in GroupSpec, and the zones the
\* device may renumber.
PanelZones == {0, 5}
RenumberedZones == {1, 4}

\* The reply of device 000000001, which has n zones, was received: its
\* Controller object was created and Controller._initialize is at its first
\* request.
GroupInit(n) ==
    LET u == "000000001"
    IN /\ net = {u}
       /\ ops = 0
       /\ ctrl = [o \in Slots |-> IF o = 1 THEN NewController(u, "8.8.8.8") ELSE FreeCtrl]
       /\ controllers = << >>
       /\ disconnected = {}
       /\ listeners = <<"l1">>
       /\ tasks = SetToBag({Task("init", 1, "wait", "-")})
       /\ calls = EmptyBag
       /\ dev = [v \in UIDs |->
                   [sys |-> [DeviceSystem(v) EXCEPT !.NoOfZones = IF v = u THEN n ELSE @],
                    zones |-> IF v = u THEN [i \in 1..n |-> DeviceZone(i - 1)]
                              ELSE DeviceZones(v)]]
       /\ up = [v \in UIDs |-> TRUE]
       /\ pend = [o \in Slots |-> 0]
       /\ ndiscov = [v \in UIDs |-> 0]
       /\ soon = << >>
       /\ scan = ScanOff
       /\ ev = << >>

GroupNext ==
    \/ \E o \in Slots : GroupInitSystemOk(o)
    \/ \E o \in Slots, g \in {0, 4, 8} : ZoneGroupOk(o, g)
    \/ \E addr \in IPs : ProcessChangedZones(addr)
    \/ \E addr \in IPs : ProcessChanged("sys", addr)
    \/ \E o \in Slots : RefreshSystemOk(o, "push")
    \/ \E n \in ZoneTotals : DeviceReconfigured("000000001", n)
    \/ \E i \in PanelZones : DeviceZoneChanged("000000001", i)
    \/ \E i \in RenumberedZones : DeviceRenumbers("000000001", i)

GroupStart == \E n \in ZoneTotals : GroupInit(n)

GroupSpec == GroupStart /\ [][GroupNext]_vars

(* -------------------------- raising listeners -------------------------- *)

\* The listeners the application adds in ExceptSpec: one whose callbacks
\* raise, and one after it.
ExceptListeners == {"lx", "l2"}

\* A controller is discovered, refreshed, disconnected and reconnected while
\* one of the listeners raises in every callback.
ExceptNext ==
    \/ \E l \in ExceptListeners : AddListener(l)
    \/ RunReplay
    \/ DiscoveryNew("000000001", "8.8.8.8")
    \/ DiscoveryKnown("000000001", "8.8.8.8")
    \/ \E o \in Slots : InitSystemOk(o)
    \/ \E o \in Slots : InitZonesOk(o)
    \/ \E which \in {"sys", "zon"} : ProcessChanged(which, "8.8.8.8")
    \/ \E o \in Slots, kind \in RefreshKinds : RefreshSystemOk(o, kind)
    \/ \E o \in Slots, kind \in RefreshKinds : RefreshZonesOk(o, kind)
    \/ \E o \in Slots, kind \in RefreshKinds, which \in {"sys", "zon"} :
          RefreshFail(o, kind, which, "TimeoutError")
    \/ \E o \in Slots : RetryFinish(o)
    \/ TransportDown("000000001")
    \/ TransportUp("000000001")

ExceptSpec == DiscInit /\ [][ExceptNext]_vars

(* ------------------------------- claims -------------------------------- *)

\* The step that led to this state began with an event of type t and kind k
\* on object o.
Began(es, t, k, o) == es # << >> /\ es[1].t = t /\ es[1].k = k /\ es[1].o = o

\* A transport operation (a settings GET or a command POST) of object o failed
\* in the step that led to this state.
FailedOn(es, o) ==
    \E k \in {"refresh_fail", "send_fail", "refetch_fail", "zone_send_fail"} :
        Began(es, "fail", k, o)

\* The application called a setter on object o in the step that led to this state.
Called(es, o) == es # << >> /\ es[1].t = "call" /\ es[1].o = o

NoCallbacks(es) == \A i \in 1..Len(es) : es[i].t # "cb"

\* C1: a failed transport operation of an initialised controller delivers
\* controller_disconnected to the listener exactly once when the controller was
\* Connected and not at all when it was Disconnected already; no other step
\* delivers it; and after every failure the stored reason is the error of that
\* failure.
C1_DisconnectedEdgeTriggered ==
    [][\A o \in Slots : Held(o) =>
          /\ CountCb(ev', "disconnected", o) =
                (IF FailedOn(ev', o) /\ ctrl[o].fail = None THEN 1 ELSE 0)
          /\ FailedOn(ev', o) => ctrl'[o].fail = ev'[1].v]_vars

\* A failure of a controller that was Disconnected already: nothing was
\* delivered, one controller_disconnected is outstanding, the reason is the new error.
C1_RepeatedFailure ==
    \E o \in Slots :
        /\ FailedOn(ev, o)
        /\ NoCallbacks(ev)
        /\ pend[o] = 1
        /\ ctrl[o].fail = ev[1].v

\* C2: once a discovery reply for an identifier was processed with the
\* transport working, every Disconnected controller the application holds for that identifier has a
\* reconnection attempt (_retry_connection) in flight; without one it stays
\* Disconnected for ever.
C2_ReplyStartsReconnect ==
    \A o \in Slots :
        (Began(ev, "run", "discovery_known", o) /\ up[ctrl[o].uid]) =>
            \A p \in Slots :
                (Held(p) /\ ctrl[p].uid = ctrl[o].uid /\ ctrl[p].fail # None) =>
                    \E t \in BagToSet(tasks) : t.kind = "retry" /\ t.o = p

\* C3: a read of a settings-backed property of a controller or of one of its
\* zones while the controller is Disconnected raises ConnectionError.
C3_ReadsRaiseWhileDisconnected ==
    \A i \in 1..Len(ev) :
        (ev[i].t = "read" /\ ctrl[ev[i].o].fail # None) => ev[i].k = "ConnectionError"

\* A zone property was read while the controller was Disconnected.
C3_ZoneReadWhileDisconnected ==
    \E i \in 1..Len(ev) :
        /\ ev[i].t = "read" /\ ev[i].z = 0
        /\ ctrl[ev[i].o].fail # None
        /\ ev[i].k = "ConnectionError"

\* C4: a setter called on a controller or zone while the controller is
\* Disconnected raises ConnectionError and sends nothing to the device.
C4_SettersRaiseWhileDisconnected ==
    \A o \in Slots :
        (Called(ev, o) /\ ctrl[o].fail # None) =>
            ev = <<ev[1], Ev("raise", "", "ConnectionError", o)>>

\* A command for object o was put on its way in the step that led to this state.
Sent(es, o) == \E i \in 1..Len(es) : es[i].t = "post" /\ es[i].o = o

\* The command of a setter of object o failed at the transport in the step that
\* led to this state.
SendFailedOn(es, o) ==
    Began(es, "fail", "send_fail", o) \/ Began(es, "fail", "zone_send_fail", o)

\* C5 as stated: when the command of the only setter call made so far fails
\* at the transport, the cached system settings and the cached zones are what
\* they were when the setter was called.
C5_CacheAsBeforeTheCall ==
    [][\A o \in Slots : (SendFailedOn(ev', o) /\ ops = 1) =>
          \A k \in BagToSet(calls) :
              (k.o = o /\ k.pc = "send") => Cache(ctrl'[o]) = k.before]_vars

\* C5, amended: when the command of a setter fails at the transport, the
\* setter raises ConnectionError and the controller is Disconnected; neither
\* putting a command on its way nor its failure changes the cached system
\* settings or the cached settings of a zone.
C5_FailedSendKeepsCache ==
    [][\A o \in Slots :
          /\ SendFailedOn(ev', o) =>
                /\ ev'[Len(ev')] = Ev("raise", "", "ConnectionError", o)
                /\ ctrl'[o].fail # None
                /\ Cache(ctrl'[o]) = Cache(ctrl[o])
          /\ Sent(ev', o) => Cache(ctrl'[o]) = Cache(ctrl[o])]_vars

\* The second command of a set_mode that left free-air mode failed: the call
\* raised, the controller is Disconnected, the listener was told, and the
\* cache holds what the first command did.
C5_SendFailed ==
    \E o \in Slots :
        /\ Began(ev, "fail", "send_fail", o)
        /\ ctrl[o].fail # None
        /\ CountCb(ev, "disconnected", o) = 1
        /\ ev[Len(ev)].t = "raise"
        /\ ops = 1
        /\ ctrl[o].settings.FreeAir = "off"
        /\ dev[ctrl[o].uid].sys.FreeAir = "off"

\* C6: a listener gets controller_discovered at most once per device
\* identifier, and holds at most one controller object per identifier.
C6_DiscoveredOncePerIdentifier ==
    \A u \in UIDs :
        /\ ndiscov[u] <= 1
        /\ Cardinality({o \in Slots : Held(o) /\ ctrl[o].uid = u}) <= 1

\* C7: a failed initialization leaves the registry as it was, runs no listener
\* callback and drops the controller object; right after it a discovery reply
\* for an identifier not in the registry starts a new initialization.
C7_FailedInitLeavesNoTrace ==
    /\ [][\A o \in Slots : Began(ev', "fail", "init_fail", o) =>
              /\ controllers' = controllers
              /\ NoCallbacks(ev')
              /\ ~ctrl'[o].live]_vars
    /\ [](\A o \in Slots, u \in net :
              (Began(ev, "fail", "init_fail", o) /\ ~Known(u)) =>
                  ENABLED DiscoveryNew(u, "8.8.8.8"))

\* An initialization failed and nothing is registered.
C7_InitFailed ==
    \E o \in Slots :
        /\ Began(ev, "fail", "init_fail", o)
        /\ controllers = << >>
        /\ ndiscov["000000001"] = 0

\* C8: a discovery reply for a registered identifier sets the address of the
\* registered controller to the address of the reply and changes nothing else of
\* it: not its identifier, its cached settings or its zones; the registry is
\* unchanged and no controller_discovered is delivered.
C8_AddressChangeOnly ==
    [][\A o \in Slots : Began(ev', "run", "discovery_known", o) =>
          /\ ctrl'[o].ip = ev'[1].v
          /\ ctrl'[o] = [ctrl[o] EXCEPT !.ip = ev'[1].v]
          /\ controllers' = controllers
          /\ ndiscov' = ndiscov
          /\ CountCb(ev', "discovered", o) = 0]_vars

\* The registered controller was re-announced at 8.8.8.4.
C8_AddressChanged ==
    \E o \in Slots :
        /\ Began(ev, "run", "discovery_known", o)
        /\ ctrl[o].ip = "8.8.8.4"
        /\ ctrl[o].uid = "000000001"
        /\ Registered(o)

\* The property a setter sets reads, from the cache, as the value of the call
\* e already.
CachedAlready(c, e) ==
    IF e.z = -1
    THEN CASE e.k = "set_on" -> c.settings.SysOn = OnOff(e.v)
           [] e.k = "set_mode" -> Mode(c) = e.v
           [] e.k = "set_fan" -> c.settings.SysFan = e.v
           [] e.k = "set_sleep_timer" -> c.settings.SleepTimer = e.n
           [] e.k = "set_free_air" -> c.settings.FreeAir = OnOff(e.v)
           [] e.k = "set_temp_setpoint" -> c.settings.Setpoint = e.n
    ELSE CASE e.k = "set_airflow_min" -> c.zones[e.z + 1].MinAir = e.n
           [] e.k = "set_airflow_max" -> c.zones[e.z + 1].MaxAir = e.n
           [] e.k = "set_temp_setpoint" -> c.zones[e.z + 1].SetPoint = e.n
           [] e.k = "set_mode" -> c.zones[e.z + 1].Mode = e.v

\* C9: a setter called on a Connected controller with the value that is
\* cached already returns and sends no command.
C9_CachedValueSendsNothing ==
    \A o \in Slots :
        (Called(ev, o) /\ ctrl[o].fail = None /\ CachedAlready(ctrl[o], ev[1])) =>
            ev = <<ev[1], Ev("ret", "", "", o)>>

\* C10: a controller setter writes nothing into the cache when it is called or
\* when its command was sent; set_mode(cool) on cached heat sends SystemMODE=cool;
\* after the command the SystemSettings fetch starts; when the fetch succeeds the
\* cached settings are what the device reported and controller_update is
\* delivered once; when it fails no controller_update is delivered.
C10_SendFetchNotify ==
    [][\A o \in Slots :
          /\ (Called(ev', o) /\ ev'[1].z = -1) => ctrl'[o].settings = ctrl[o].settings
          /\ (Called(ev', o) /\ ev'[1].z = -1 /\ ev'[1].k = "set_mode" /\ ev'[1].v = "cool"
                /\ ctrl[o].fail = None /\ Mode(ctrl[o]) = "heat" /\ LockFree(o)) =>
                /\ Len(ev') = 2
                /\ ev'[2].t = "post" /\ ev'[2].k = "SystemMODE" /\ ev'[2].v = "cool"
          /\ Began(ev', "run", "send_ok", o) =>
                /\ \E k \in BagToSet(calls) : k.o = o /\ k.pc = "send"
                /\ ev' = <<ev'[1], Ev("get", "", "SystemSettings", o)>>
                /\ ctrl' = ctrl
          /\ Began(ev', "run", "refetch_ok", o) =>
                /\ \E k \in BagToSet(calls) : k.o = o /\ k.pc = "refetch"
                /\ ctrl'[o].settings = dev[ctrl[o].uid].sys
                /\ CountCb(ev', "controller_update", o) = 1
          /\ Began(ev', "fail", "refetch_fail", o) =>
                /\ CountCb(ev', "controller_update", o) = 0
                /\ ctrl'[o].settings = ctrl[o].settings]_vars

\* set_mode(cool) went through: the device reported cool, the cache says cool,
\* controller_update was delivered and the call returned.
C10_ModeSetToCool ==
    \E o \in Slots :
        /\ Began(ev, "run", "refetch_ok", o)
        /\ Mode(ctrl[o]) = "cool"
        /\ dev[ctrl[o].uid].sys.SysMode = "cool"
        /\ CountCb(ev, "controller_update", o) = 1
        /\ ev[Len(ev)].t = "ret"

\* C11: a zone_update that follows a zone setter is delivered after a fetch of
\* the zone's settings that the setter started once its command was answered,
\* so the zone's cached settings are then what the device reports.
C11_ZoneSetterRefetches ==
    \A i \in 1..Len(ev) :
        (ev[i].t = "cb" /\ ev[i].k = "zone_update" /\ Began(ev, "run", "zone_send_ok", ev[i].o)) =>
            /\ \E j \in 1..(i - 1) : ev[j].t = "get"
            /\ ctrl[ev[i].o].zones[ev[i].z + 1] = dev[ctrl[ev[i].o].uid].zones[ev[i].z + 1]

(* ----------------------- validation of setter values ------------------- *)

\* Controller.sleep_timer, past its _ensure_connected: int(...) of the cached entry.
SleepTimerOf(c) == c.settings.SleepTimer

\* Controller.temp_setpoint, past its _ensure_connected: `float(...) or None`,
\* the empty set for None.
TempSetpointOf(c) == IF c.settings.Setpoint = 0 THEN {} ELSE {c.settings.Setpoint}

\* Zone.temp_setpoint, past its _ensure_connected: `... or None`.
ZoneTempSetpointOf(zn) == IF zn.SetPoint = 0 THEN {} ELSE {zn.SetPoint}

\* The fixture with the eco-lock of the device set to `eco` and its eco range
\* to 20.0 .. 26.0 degrees.
EcoFixture(eco) ==
    LET u == "000000001"
        sys == [DeviceSystem(u) EXCEPT !.EcoLock = eco, !.EcoMin = 200, !.EcoMax = 260]
    IN /\ net = {u}
       /\ ops = 0
       /\ ctrl = [o \in Slots |->
                    IF o = 1 THEN Initialised(u, "8.8.8.8", sys, DeviceZones(u)) ELSE FreeCtrl]
       /\ controllers = << <<u, 1>> >>
       /\ disconnected = {}
       /\ listeners = <<"l1">>
       /\ tasks = EmptyBag
       /\ calls = EmptyBag
       /\ dev = [v \in UIDs |-> [sys |-> IF v = u THEN sys ELSE DeviceSystem(v),
                                 zones |-> DeviceZones(v)]]
       /\ up = [v \in UIDs |-> TRUE]
       /\ pend = [o \in Slots |-> 0]
       /\ ndiscov = [v \in UIDs |-> IF v = u THEN 1 ELSE 0]
       /\ soon = << >>
       /\ scan = ScanOff
       /\ ev = << >>

\* Setter values inside and outside their ranges, eco-lock off and on; zone 0
\* is of type auto, zone 1 of type const.
ValidInit == \E eco \in {"false", "true"} : EcoFixture(eco)

ValidArgs ==
    {<<"set_sleep_timer", "", -30>>, <<"set_sleep_timer", "", 0>>,
     <<"set_sleep_timer", "", 30>>, <<"set_sleep_timer", "", 45>>,
     <<"set_sleep_timer", "", 120>>, <<"set_sleep_timer", "", 150>>,
     <<"set_temp_setpoint", "", 190>>, <<"set_temp_setpoint", "", 240>>,
     <<"set_temp_setpoint", "", 243>>, <<"set_temp_setpoint", "", 250>>,
     <<"set_temp_setpoint", "", 310>>}

ValidZoneArgs ==
    {<<"set_airflow_min", "", -1>>, <<"set_airflow_min", "", 40>>,
     <<"set_airflow_min", "", 41>>, <<"set_airflow_min", "", 105>>,
     <<"set_airflow_max", "", -5>>, <<"set_airflow_max", "", 60>>,
     <<"set_airflow_max", "", 100>>, <<"set_airflow_max", "", 102>>,
     <<"set_temp_setpoint", "", 190>>, <<"set_temp_setpoint", "", 243>>,
     <<"set_temp_setpoint", "", 250>>,
     <<"set_mode", "open", 0>>, <<"set_mode", "close", 0>>, <<"set_mode", "auto", 0>>}

ValidNext ==
    \/ \E o \in Slots, a \in ValidArgs : CallSetter(o, a[1], a[2], a[3])
    \/ \E o \in Slots : AcquireLock(o)
    \/ \E o \in Slots, applied \in BOOLEAN : SendOk(o, applied)
    \/ \E o \in Slots : RefetchOk(o)
    \/ \E o \in Slots, z \in {0, 1}, a \in ValidZoneArgs : CallZoneSetter(o, z, a[1], a[2], a[3])
    \/ \E o \in Slots, applied \in BOOLEAN : ZoneSendOk(o, applied)

ValidSpec == ValidInit /\ [][ValidNext]_vars

\* The setter call of event e was refused: it raised AttributeError at once.
Refused(es, o) == es = <<es[1], Ev("raise", "", "AttributeError", o)>>

\* The call in flight on object o that waits at pc.
InFlight(cs, o, pc) == {k \in BagToSet(cs) : k.o = o /\ k.pc = pc}

\* C12: on a Connected controller set_sleep_timer(v) with v outside
\* {0, 30, 60, 90, 120} raises AttributeError, sends nothing and changes neither
\* the cache nor the device; with v inside it is not refused: it returns at
\* once when v is cached already, else its command SleepTimer=v is sent or waits
\* for the lock; and when the call returns after the device has carried the
\* command out, sleep_timer reads v.
C12_SleepTimerValidated ==
    [][\A o \in Slots :
          /\ (Called(ev', o) /\ ev'[1].z = -1 /\ ev'[1].k = "set_sleep_timer"
                /\ ctrl[o].fail = None) =>
                LET v == ev'[1].n
                    valid == v \in {0, 30, 60, 90, 120}
                IN /\ ~valid => (Refused(ev', o) /\ ctrl' = ctrl /\ calls' = calls /\ dev' = dev)
                   /\ valid =>
                        IF SleepTimerOf(ctrl[o]) = v
                        THEN ev' = <<ev'[1], Ev("ret", "", "", o)>> /\ SleepTimerOf(ctrl'[o]) = v
                        ELSE /\ \E k \in BagToSet(calls') :
                                  k.o = o /\ k.cmd = "SleepTimer" /\ k.num = v /\ k.pc \in {"send", "lock"}
                             /\ LockFree(o) => (Len(ev') = 2 /\ ev'[2].t = "post"
                                                /\ ev'[2].k = "SleepTimer" /\ ev'[2].n = v)
          /\ Began(ev', "run", "refetch_ok", o) =>
                \A k \in InFlight(calls, o, "refetch") :
                    (k.key = "SleepTimer" /\ dev[ctrl[o].uid].sys.SleepTimer = k.num) =>
                        /\ SleepTimerOf(ctrl'[o]) = k.num
                        /\ ev'[Len(ev')] = Ev("ret", "", "", o)]_vars

\* set_sleep_timer(30) went through and set_sleep_timer(45) was refused after
\* it: the cache and the device still say 30.
C12_SleepTimerRefused ==
    \E o \in Slots :
        /\ Called(ev, o) /\ ev[1].k = "set_sleep_timer" /\ ev[1].n = 45
        /\ Refused(ev, o)
        /\ SleepTimerOf(ctrl[o]) = 30
        /\ dev[ctrl[o].uid].sys.SleepTimer = 30
        /\ calls = EmptyBag

\* The value a zone's cache holds for the key of an airflow setter.
AirflowOf(zn, setter) == IF setter = "set_airflow_min" THEN zn.MinAir ELSE zn.MaxAir

\* C13: set_airflow_min(v) and set_airflow_max(v) of a zone with v not a
\* multiple of 5 or outside 0..100 raise AttributeError, send nothing and leave
\* the controller's caches and the device as they were; with v a multiple of 5
\* in 0..100 the command AirMinCommand / AirMaxCommand with v is sent at once.
C13_AirflowValidated ==
    [][\A o \in Slots :
          (Called(ev', o) /\ ev'[1].z >= 0
             /\ ev'[1].k \in {"set_airflow_min", "set_airflow_max"}) =>
                LET v == ev'[1].n
                    valid == v % 5 = 0 /\ 0 <= v /\ v <= 100
                    zn == ctrl[o].zones[ev'[1].z + 1]
                IN /\ ~valid => /\ Refused(ev', o)
                                /\ ctrl' = ctrl /\ calls' = calls /\ dev' = dev
                                /\ AirflowOf(ctrl'[o].zones[ev'[1].z + 1], ev'[1].k) = AirflowOf(zn, ev'[1].k)
                   /\ valid => /\ Len(ev') = 2
                               /\ ev'[2].t = "post" /\ ev'[2].z = ev'[1].z /\ ev'[2].n = v
                               /\ ev'[2].k = (IF ev'[1].k = "set_airflow_min"
                                              THEN "AirMinCommand" ELSE "AirMaxCommand")]_vars

\* set_airflow_min(40) of zone 0 went through and set_airflow_min(105) was
\* refused after it: the cached minimum is still 40.
C13_AirflowRefused ==
    \E o \in Slots :
        /\ Called(ev, o) /\ ev[1].k = "set_airflow_min" /\ ev[1].n = 105 /\ ev[1].z = 0
        /\ Refused(ev, o)
        /\ ctrl[o].zones[1].MinAir = 40
        /\ calls = EmptyBag

\* The setpoint range of the claim: the device's EcoMin .. EcoMax when its
\* eco-lock is on, 15.0 .. 30.0 degrees when it is off (tenths of a degree).
EcoRange(d) ==
    IF d.sys.EcoLock = "true" THEN d.sys.EcoMin .. d.sys.EcoMax ELSE 150 .. 300

\* A unit setpoint call behaves as the claim says: refused without a trace
\* when v is outside the range or not a multiple of 0.5, else returned at once
\* (cached already) or its command UnitSetpoint=v sent or waiting for the lock.
UnitSetpointAsClaimed(o) ==
    (Called(ev', o) /\ ev'[1].z = -1 /\ ev'[1].k = "set_temp_setpoint" /\ ctrl[o].fail = None) =>
        LET v == ev'[1].n
            valid == v % 5 = 0 /\ v \in EcoRange(dev[ctrl[o].uid])
        IN /\ ~valid => (Refused(ev', o) /\ ctrl' = ctrl /\ calls' = calls /\ dev' = dev)
           /\ valid =>
                IF ctrl[o].settings.Setpoint = v
                THEN ev' = <<ev'[1], Ev("ret", "", "", o)>> /\ TempSetpointOf(ctrl'[o]) = {v}
                ELSE /\ \E k \in BagToSet(calls') :
                          k.o = o /\ k.cmd = "UnitSetpoint" /\ k.num = v /\ k.pc \in {"send", "lock"}
                     /\ LockFree(o) => (Len(ev') = 2 /\ ev'[2].t = "post"
                                        /\ ev'[2].k = "UnitSetpoint" /\ ev'[2].n = v)

\* A unit setpoint call that returns after the device carried its command out:
\* temp_setpoint reads the value of the call.
UnitSetpointRoundTrip(o) ==
    Began(ev', "run", "refetch_ok", o) =>
        \A k \in InFlight(calls, o, "refetch") :
            (k.key = "Setpoint" /\ dev[ctrl[o].uid].sys.Setpoint = k.num) =>
                /\ TempSetpointOf(ctrl'[o]) = {k.num}
                /\ ev'[Len(ev')] = Ev("ret", "", "", o)

\* A setpoint call on zone z behaves as the claim says: refused without a
\* trace when v is outside the range or not a multiple of 0.5, else its command
\* ZoneCommand with v is sent at once.
ZoneSetpointAsClaimed(o, z) ==
    (Called(ev', o) /\ ev'[1].z = z /\ ev'[1].k = "set_temp_setpoint" /\ ctrl[o].fail = None) =>
        LET v == ev'[1].n
            valid == v % 5 = 0 /\ v \in EcoRange(dev[ctrl[o].uid])
        IN /\ ~valid => (Refused(ev', o) /\ ctrl' = ctrl /\ calls' = calls /\ dev' = dev)
           /\ valid => /\ Len(ev') = 2
                       /\ ev'[2].t = "post" /\ ev'[2].k = "ZoneCommand"
                       /\ ev'[2].z = z /\ ev'[2].n = v

\* A zone setpoint call that returns: the zone's temp_setpoint reads the value
\* of the call.
ZoneSetpointRoundTrip(o) ==
    Began(ev', "run", "zone_send_ok", o) =>
        \A k \in InFlight(calls, o, "send") :
            (k.z >= 0 /\ k.key = "SetPoint" /\ Cardinality(InFlight(calls, o, "send")) = 1) =>
                /\ ZoneTempSetpointOf(ctrl'[o].zones[k.z + 1]) = {k.num}
                /\ ev'[Len(ev')] = Ev("ret", "", "", o)

\* C14 as stated: the unit setpoint and the setpoint of every zone accept
\* exactly the multiples of 0.5 inside the eco range, an accepted value reads
\* back, a refused one sends nothing and leaves the caches alone.
C14_SetpointAcceptedInRange ==
    [][\A o \in Slots :
          /\ UnitSetpointAsClaimed(o)
          /\ UnitSetpointRoundTrip(o)
          /\ \A z \in 0..(Len(ctrl[o].zones) - 1) : ZoneSetpointAsClaimed(o, z)
          /\ ZoneSetpointRoundTrip(o)]_vars

\* C14, amended: as stated for the unit setpoint and for the setpoint of every
\* zone of type auto; on a zone of another type set_temp_setpoint is refused
\* for every value, sends nothing and leaves the caches alone.
C14_SetpointAcceptedOnAutoZones ==
    [][\A o \in Slots :
          /\ UnitSetpointAsClaimed(o)
          /\ UnitSetpointRoundTrip(o)
          /\ \A z \in 0..(Len(ctrl[o].zones) - 1) :
                IF ctrl[o].zones[z + 1].Type = "auto" THEN ZoneSetpointAsClaimed(o, z)
                ELSE (Called(ev', o) /\ ev'[1].z = z /\ ev'[1].k = "set_temp_setpoint"
                        /\ ctrl[o].fail = None) =>
                         (Refused(ev', o) /\ ctrl' = ctrl /\ calls' = calls /\ dev' = dev)
          /\ ZoneSetpointRoundTrip(o)]_vars

\* With the eco-lock on (20.0 .. 26.0) the unit setpoint 25.0 went through and
\* reads back, and the zone setpoint 19.0 was refused on the auto zone after it.
C14_SetpointRefusedByEcoLock ==
    \E o \in Slots :
        /\ Called(ev, o) /\ ev[1].k = "set_temp_setpoint" /\ ev[1].n = 190 /\ ev[1].z = 0
        /\ Refused(ev, o)
        /\ EcoLock(ctrl[o])
        /\ TempSetpointOf(ctrl[o]) = {250}
        /\ ZoneTempSetpointOf(ctrl[o].zones[1]) = {240}

\* C15: set_mode on a zone of type const raises AttributeError for every mode,
\* sends nothing and leaves the zone's cached mode as it was.
C15_ConstZoneRefusesMode ==
    \A o \in Slots :
        (Called(ev, o) /\ ev[1].z >= 0 /\ ev[1].k = "set_mode"
           /\ ctrl[o].zones[ev[1].z + 1].Type = "const") =>
              /\ Refused(ev, o)
              /\ ~Sent(ev, o)

\* The step that led to this state processed a datagram.
GotDatagram(es) == es # << >> /\ es[1].t = "dgram"

\* The datagram `data` is a discovery reply for device D at address A as the
\* claim has it: at least three fields, ASPort_12107, Mac_D, IP_A, and a fourth
\* field, when there is one, iZone.
IsReplyAsClaimed(data, D, A) ==
    /\ Len(data) >= 3
    /\ data[1] = <<"ASPort", "12107">>
    /\ data[2] = <<"Mac", D>>
    /\ data[3] = <<"IP", A>>
    /\ Len(data) > 3 => data[4] = <<"iZone">>

\* As above, but D and A are what follows the first underscore of the second
\* and third field (up to a second underscore), whatever stands before it.
IsReplyByPosition(data, D, A) ==
    /\ Len(data) >= 3
    /\ data[1] = <<"ASPort", "12107">>
    /\ Len(data[2]) >= 2 /\ data[2][2] = D
    /\ Len(data[3]) >= 2 /\ data[3][2] = A
    /\ Len(data) > 3 => data[4] = <<"iZone">>

\* The step treated its datagram as a discovery reply for D at A: a Controller
\* for D at A was created and its initialization started when D was not
\* registered, else the registered controller of D was given the address A.
TreatedAsReply(D, A) ==
    IF Known(D)
    THEN /\ ctrl'[Lookup(D)].ip = A
         /\ controllers' = controllers
         /\ ev'[2].t = "run" /\ ev'[2].k = "discovery_known" /\ ev'[2].o = Lookup(D)
    ELSE \E o \in Slots :
            /\ ~ctrl[o].live
            /\ ctrl'[o] = NewController(D, A)
            /\ tasks' = Put(tasks, Task("init", o, "wait", "-"))

\* The step created no Controller, changed none and left the registry alone.
NothingDiscovered ==
    /\ ctrl' = ctrl
    /\ controllers' = controllers
    /\ NumInits' = NumInits

\* C16 as stated: a datagram is treated as a discovery reply for D at A
\* exactly when it has the fields ASPort_12107, Mac_D, IP_A and no fourth field
\* other than iZone; any other datagram creates no controller and changes none.
C16_ReplyExactlyWhenTagged ==
    [][GotDatagram(ev') =>
          LET data == Datagrams[ev'[1].n]
          IN IF \E D \in UIDs, A \in IPs : IsReplyAsClaimed(data, D, A)
             THEN \A D \in UIDs, A \in IPs : IsReplyAsClaimed(data, D, A) => TreatedAsReply(D, A)
             ELSE NothingDiscovered]_vars

\* C16, amended: the same with D and A taken by position, the text before the
\* underscore of the second and third field not looked at.
C16_ReplyExactlyWhenWellFormed ==
    [][GotDatagram(ev') =>
          LET data == Datagrams[ev'[1].n]
          IN IF \E D \in UIDs, A \in IPs : IsReplyByPosition(data, D, A)
             THEN \A D \in UIDs, A \in IPs : IsReplyByPosition(data, D, A) => TreatedAsReply(D, A)
             ELSE NothingDiscovered]_vars

\* A reply with the product tag iLight arrived for the registered controller
\* from a new address and was dropped: the controller keeps its address.
C16_WrongProductDropped ==
    /\ GotDatagram(ev)
    /\ Datagrams[ev[1].n] = ReplyOf("000000001", "8.8.8.4") \o << <<"iLight">> >>
    /\ Known("000000001")
    /\ ctrl[Lookup("000000001")].ip = "8.8.8.8"
    /\ ev[2] = Ev("run", "", "dropped", 0)

\* C17: processing a datagram raises no exception, whatever the datagram.
C17_DatagramNeverRaises ==
    GotDatagram(ev) => \A j \in 1..Len(ev) : ev[j].t # "raise"


(* ------------------------ listeners come and go ------------------------ *)

\* The step is the call k of the application.
ServiceCall(es, k) == es # << >> /\ es[1].t = "call" /\ es[1].k = k

\* The step is the event loop running handle k.
Ran(es, k) == es # << >> /\ es[1].t = "run" /\ es[1].k = k

\* The number of callbacks k of listener l for object o in a sequence of events.
CountCbOf(es, l, k, o) ==
    Cardinality({i \in 1..Len(es) :
        es[i].t = "cb" /\ es[i].l = l /\ es[i].k = k /\ es[i].o = o})

\* C18: add_listener(l) runs no callback of l inside the call, and the replay
\* it scheduled gives l controller_discovered exactly once for every
\* controller that was in the registry when add_listener was called.
C18_ReplayCoversKnownControllers ==
    [][/\ ServiceCall(ev', "add_listener") => NoCallbacks(ev')
       /\ Ran(ev', "replay") =>
            \A i \in 1..Len(Head(soon).seen) :
                CountCbOf(ev', Head(soon).l, "discovered", Head(soon).seen[i][2]) = 1]_vars

\* C19: a listener that is not registered (never added, or removed since)
\* receives no notification of any kind.
C19_RemovedListenerIsSilent ==
    \A i \in 1..Len(ev) : ev[i].t = "cb" => ev[i].l \in Range(listeners)


(* ------------------------------ beacon rounds -------------------------- *)

\* The first steps of _scan_loop, or its resumptions, that the event loop
\* still has to run.
ScanHandles(q) == Cardinality({i \in 1..Len(q) : q[i].k = "scan"})

\* The scan loop is suspended in its wait and nothing has ended the wait yet.
ScanWaiting(sc) == sc.pc = "wait"

\* The wait of the scan loop has ended, by a notify or by the timeout, and the
\* loop has not run since.
ScanWoken(sc) == sc.pc \in {"notified", "timedout"}

\* C20: when start_discovery returns, exactly one round of beacons has been
\* sent; a rescan() that finds the scan loop waiting ends the wait at once,
\* whatever is left of the scan interval, and every ended wait is followed by
\* exactly one run of the loop body, which sends exactly one round.
C20_OneRoundPerWakeUp ==
    [][/\ Ran(ev', "start_return") => scan'.rounds = 1
       /\ ServiceCall(ev', "rescan") /\ ScanWaiting(scan) =>
            /\ scan'.pc = "notified"
            /\ scan'.rounds = scan.rounds
            /\ ScanHandles(soon') = 1
       /\ ScanWoken(scan') => ScanHandles(soon') = 1
       /\ ScanWoken(scan) /\ ~ScanWoken(scan') =>
            /\ Ran(ev', "scan_loop")
            /\ scan'.pc = "wait"
            /\ scan'.rounds = scan.rounds + 1
            /\ ScanHandles(soon') = 0
       /\ scan'.rounds # scan.rounds => Ran(ev', "scan_loop")]_vars

\* The first call of the application after start_discovery returned is a
\* rescan(): it found the scan loop waiting after its first round and woke it.
C20_RescanWokeTheLoop ==
    /\ ServiceCall(ev, "rescan")
    /\ ops = 1
    /\ scan.started
    /\ scan.rounds = 1
    /\ scan.pc = "notified"
    /\ ScanHandles(soon) = 1


(* -------------------------------- closing ------------------------------ *)

\* A beacon left the socket in the step that led to this state.
BeaconSent(es) == \E i \in 1..Len(es) : es[i].t = "beacon"

\* The first close() returned in the step that led to this state.
CloseReturned(es) ==
    es # << >> /\ es[1].t = "ret" /\ es[1].k = "close" /\ es[1].l = scan.close_task

\* C21: once close() was called no beacon is sent and is_closed is true, and
\* when that close() returns the scan loop has returned and no initialize task
\* is in flight.
C21_CloseStopsTheScanLoop ==
    scan.close_task # "" =>
        /\ ~BeaconSent(ev)
        /\ IsClosed(scan)
        /\ CloseReturned(ev) =>
             /\ ~ScanAlive(scan)
             /\ \A t \in BagToSet(tasks) : t.kind # "init"


\* A call ended with an exception in the step that led to this state.
Raised(es) == \E i \in 1..Len(es) : es[i].t = "raise"

\* C22: a call of close() made while the first close() is running or after it
\* has returned does no shutdown work (transport, scan loop and scheduled
\* handles stay as they are) and does not raise.
C22_CloseIsIdempotent ==
    [][ServiceCall(ev', "close") /\ scan.close \in {"wait", "done"} =>
          /\ ~Raised(ev')
          /\ soon' = soon
          /\ [scan' EXCEPT !.again = {}] = [scan EXCEPT !.again = {}]]_vars


\* connection_lost was called and found no close() made: the task it created
\* for close() is scheduled.
LostUnclosed(es, q) ==
    /\ Ran(es, "connection_lost")
    /\ \E i \in 1..Len(q) : q[i].k = "close"

\* C23: when the transport is lost and close() was not called, connection_lost
\* schedules a close() and is_closed is true; that close(), if it is the first
\* to run, does the shutdown (it notifies the scan loop); and the scan loop
\* ends.
C23_LostTransportCloses ==
    /\ [][/\ Ran(ev', "connection_lost") /\ scan.close_task = "" =>
               LostUnclosed(ev', soon') /\ IsClosed(scan')
          /\ Ran(ev', "close_task") /\ scan.close_task = "" =>
               /\ scan'.close_task = "lost"
               /\ scan'.close = "wait"
               /\ scan'.pc # "wait"
               /\ IsClosed(scan')]_vars
    /\ LostUnclosed(ev, soon) ~> ~ScanAlive(scan)

\* The transport was lost, the close() of connection_lost did the shutdown and
\* has returned: the scan loop has ended.
C23_ClosedAfterLoss ==
    /\ scan.close_task = "lost"
    /\ scan.close = "done"
    /\ scan.transport = "closed"
    /\ scan.pc = "done"
    /\ IsClosed(scan)


(* ------------------------ callbacks and the caller --------------------- *)

\* The step is the synchronous part of a call of the application: from the
\* call to its first suspension, or a property read.
CallStep(es) ==
    /\ es # << >>
    /\ \/ es[1].t = "call"
       \/ es[1].t = "run" /\ es[1].k \in {"read_system", "read_zone"}

\* The step resumes a setter call of the application: the answer to its
\* command or to its re-fetch arrived, or the request failed.
SetterResumed(es) ==
    /\ es # << >>
    /\ es[1].t \in {"run", "fail"}
    /\ es[1].k \in {"acquire", "send_ok", "send_fail", "refetch_ok", "refetch_fail",
                    "sleep_done", "zone_send_ok", "zone_send_fail"}

RetrySucceeded(es, o) == Began(es, "run", "retry_finish", o)

\* The number of callbacks k of listener l for object o and zone z (-1: none)
\* in a sequence of events.
CountCbZ(es, l, k, o, z) ==
    Cardinality({i \in 1..Len(es) :
        es[i].t = "cb" /\ es[i].l = l /\ es[i].k = k /\ es[i].o = o /\ es[i].z = z})

\* C25: when a reconnection attempt of a registered controller that is
\* Disconnected succeeds, every listener gets in that step one
\* controller_reconnected, one controller_update and one zone_update for each
\* zone of the controller; the controller is Connected and the callbacks see
\* the cache as the requests of the attempt left it, each answer of the device
\* having been stored when it arrived.
C25_ReconnectionRefreshesListeners ==
    [][\A o \in Slots :
          /\ RetrySucceeded(ev', o) /\ Registered(o) /\ ctrl[o].fail # None =>
                /\ \A i \in 1..Len(listeners) :
                      /\ CountCbZ(ev', listeners[i], "reconnected", o, -1) = 1
                      /\ CountCbZ(ev', listeners[i], "controller_update", o, -1) = 1
                      /\ \A z \in 0..(Len(ctrl[o].zones) - 1) :
                            CountCbZ(ev', listeners[i], "zone_update", o, z) = 1
                /\ ctrl'[o].fail = None
                /\ Cache(ctrl'[o]) = Cache(ctrl[o])
          /\ Began(ev', "run", "refresh_system_ok", o) =>
                ctrl'[o].settings = dev[ctrl[o].uid].sys
          /\ Began(ev', "run", "refresh_zones_ok", o) =>
                ctrl'[o].zones = dev[ctrl[o].uid].zones]_vars

(* ---------------------------- initialization --------------------------- *)

\* Controller._initialize is through for object o: the system settings are the
\* ones a device with its identifier answered, the zone list has the reported
\* zone total, and every zone holds the data of its entry in a zone group.
InitializationComplete(o) ==
    /\ ctrl[o].live
    /\ ctrl[o].initialised
    /\ ctrl[o].settings # EmptySettings
    /\ ctrl[o].settings.AirStreamDeviceUId = ctrl[o].uid
    /\ ctrl[o].fan_modes = VALID_FAN_MODES(ctrl[o].settings.FanAuto)
    /\ Len(ctrl[o].zones) = ctrl[o].settings.NoOfZones
    /\ \A i \in 1..Len(ctrl[o].zones) :
          ctrl[o].zones[i].Index = i - 1 /\ ctrl[o].zones[i].Type # ""

\* C26: every controller in the registry and every controller just passed to
\* controller_discovered has completed its initialization, and no task is
\* still initializing it.
C26_RegisteredMeansInitialised ==
    /\ \A i \in 1..Len(controllers) :
          /\ InitializationComplete(controllers[i][2])
          /\ ctrl[controllers[i][2]].uid = controllers[i][1]
          /\ ~\E t \in BagToSet(tasks) : t.kind = "init" /\ t.o = controllers[i][2]
    /\ \A j \in 1..Len(ev) :
          ev[j].t = "cb" /\ ev[j].k = "discovered" =>
             /\ InitializationComplete(ev[j].o)
             /\ Registered(ev[j].o)

\* The initialization of the first object finished: it was registered with
\* its two zones and passed to controller_discovered.
C26_DiscoveredAfterInit ==
    /\ Began(ev, "run", "init_zones_ok", 1)
    /\ CountCb(ev, "discovered", 1) = 1
    /\ controllers = << <<"000000001", 1>> >>
    /\ Len(ctrl[1].zones) = 2

(* ----------------------- failed reconnection attempts ------------------ *)

\* The step is the failure of a request of a Controller._retry_connection of
\* object o: the attempt (a "retry" task) ends in it.
RetryFailed(es, o) ==
    /\ Began(es, "fail", "refresh_fail", o)
    /\ \E t \in BagToSet(tasks) :
          t.kind = "retry" /\ t.o = o /\ CopiesIn(t, tasks') < CopiesIn(t, tasks)

\* C27: a reconnection attempt whose request fails at the transport ends
\* without raising and without any callback, and the controller is
\* Disconnected as before.
C27_FailedAttemptIsSilent ==
    [][\A o \in Slots :
          RetryFailed(ev', o) =>
             /\ NoCallbacks(ev')
             /\ \A i \in 1..Len(ev') : ev'[i].t # "raise"
             /\ ctrl[o].fail # None /\ ctrl'[o].fail # None
             /\ disconnected' = disconnected]_vars

(* ---------------------------- the scan interval ------------------------ *)

\* A registered controller is Disconnected.
RegisteredDisconnected == \E o \in Slots : Registered(o) /\ ctrl[o].fail # None

\* Some Controller object is Disconnected, registered or not.
SomeDisconnected == \E o \in Slots : ctrl[o].live /\ ctrl[o].fail # None

\* The _rescan task of controller_disconnected stands in the ready queue: the
\* scan loop is about to be woken.
RescanPending(q) == \E i \in 1..Len(q) : q[i].k = "rescan"

\* C28: while a registered controller is Disconnected a wait of the scan loop
\* has the short interval DISCOVERY_RESCAN, or the wake-up of the loop is
\* already queued; the step in which a registered controller becomes
\* Disconnected queues that wake-up; and a wait started while no controller is
\* Disconnected has the long interval DISCOVERY_SLEEP.
C28_ShortIntervalWhileDisconnected ==
    [][/\ scan'.pc = "wait" /\ RegisteredDisconnected' =>
             scan'.interval = "rescan" \/ RescanPending(soon')
       /\ \A o \in Slots :
             Registered(o) /\ ctrl[o].fail = None /\ ctrl'[o].live /\ ctrl'[o].fail # None =>
                RescanPending(soon')
       /\ scan.pc # "wait" /\ scan'.pc = "wait" /\ ~SomeDisconnected =>
             scan'.interval = "sleep"]_vars

(* --------------------------- push notifications ------------------------ *)

\* The step received datagram `data` from address addr.
Received(es, data, addr) ==
    /\ es # << >>
    /\ es[1].t = "dgram" /\ es[1].k = addr
    /\ Datagrams[es[1].n] = data

\* The step is the answer to request `which` of a push-triggered refresh of
\* object o.
PushAnswered(es, o, which) ==
    /\ Began(es, "run", IF which = "sys" THEN "refresh_system_ok" ELSE "refresh_zones_ok", o)
    /\ \E t \in BagToSet(tasks) :
          /\ t.kind = "push" /\ t.o = o /\ t[which] = "wait"
          /\ CopiesIn(t, tasks') < CopiesIn(t, tasks)

\* The requests started in a sequence of events.
Requests(es) == {i \in 1..Len(es) : es[i].t \in {"get", "post"}}

\* The registered controllers whose current address is addr.
AtAddress(addr) == {o \in Slots : Registered(o) /\ ctrl[o].ip = addr}

\* Nothing but ev changes.
OnlyEvChanges ==
    UNCHANGED <<ctrl, controllers, disconnected, listeners, tasks, calls, dev, up, net, ops,
                pend, ndiscov, soon, scan>>

PushTasks(o) == {t \in BagToSet(tasks) : t.kind = "push" /\ t.o = o}

\* The step is the failure of the request of a push-triggered refresh of
\* object o: a request of o failed, and either a "push" task of o ended in the
\* step or "push" tasks were the only refreshes of o in flight.
PushFailed(es, o) ==
    /\ Began(es, "fail", "refresh_fail", o)
    /\ PushTasks(o) # {}
    /\ \/ \E t \in PushTasks(o) : CopiesIn(t, tasks') < CopiesIn(t, tasks)
       \/ \A t \in BagToSet(tasks) : t.o = o => t.kind = "push"

\* C30: when the request of a push-triggered refresh fails at the transport,
\* the refresh task ends in that step with nothing raised and nothing left of
\* it, the cache is untouched, the only callbacks are controller_disconnected
\* of that controller, and the controller is Disconnected afterwards with the
\* error as its reason; a controller that was Connected gives every listener
\* controller_disconnected exactly once and is added to the Disconnected set,
\* one that was Disconnected already gives no callback.
C30_PushFailureAbsorbed ==
    [][\A o \in Slots :
          PushFailed(ev', o) =>
             /\ \E t \in PushTasks(o) : tasks' = Take(tasks, t)
             /\ \A i \in 1..Len(ev') :
                   /\ ev'[i].t # "raise"
                   /\ ev'[i].t = "cb" => ev'[i].k = "disconnected" /\ ev'[i].o = o
             /\ Cache(ctrl'[o]) = Cache(ctrl[o])
             /\ ctrl'[o].fail = ev'[1].v /\ ctrl'[o].fail \in Errors
             /\ ctrl[o].fail = None =>
                   /\ \A i \in 1..Len(listeners) :
                         CountCbZ(ev', listeners[i], "disconnected", o, -1) = 1
                   /\ disconnected' = disconnected \cup {ctrl[o].uid}
             /\ ctrl[o].fail # None =>
                   /\ NoCallbacks(ev')
                   /\ disconnected' = disconnected]_vars

\* A zones-changed refresh of the Connected controller 1 has just failed with
\* a timeout: the listener got controller_disconnected and no task is left.
C30_PushTimedOut ==
    /\ ev = <<Failed("refresh_fail", 1, "TimeoutError"), Ev("cb", "l1", "disconnected", 1)>>
    /\ Registered(1)
    /\ ctrl[1].fail = "TimeoutError"
    /\ "000000001" \in disconnected
    /\ tasks = EmptyBag

(* ----------------------- serialisation of mutations -------------------- *)

\* The mutations of object o whose command write or re-fetch is in progress.
InProgress(o) == {k \in BagToSet(calls) : k.o = o /\ k.pc \in {"send", "refetch"}}

\* C31: at no time are the command write or re-fetch of two mutations on the
\* same controller (controller setters or setters of its zones) in progress
\* together.
C31_MutationsSerialised ==
    \A o \in Slots :
        /\ Cardinality(InProgress(o)) <= 1
        /\ \A k \in InProgress(o) : CopiesIn(k, calls) = 1

(* --------------------------- racing refreshes -------------------------- *)

\* A system refresh of object o (a re-fetch or a push-triggered refresh) has
\* just been completed by the arrival of its response.
SystemArrived(es, o) ==
    Began(es, "run", "refetch_arrived", o) \/ Began(es, "run", "refresh_system_arrived", o)

\* No request of object o is in flight: no setter call, no refresh task.
Quiet(o, ts, cs) ==
    /\ \A t \in BagToSet(ts) : t.o # o
    /\ \A k \in BagToSet(cs) : k.o # o

\* C32: when the last of the system refreshes of a controller in flight
\* completes and the device has the settings it had when the later request was
\* answered (they are in the cache already, written by the refresh that
\* completed before, and the device does not change in the step), the cached
\* system settings equal the device's settings afterwards.
C32_RacingRefreshesConverge ==
    [][\A o \in Slots :
          /\ SystemArrived(ev', o)
          /\ Quiet(o, tasks', calls')
          /\ ctrl[o].settings = dev[ctrl[o].uid].sys
          /\ dev' = dev
          => ctrl'[o].settings = dev'[ctrl[o].uid].sys]_vars

(* ------------------------------ zone groups ---------------------------- *)

\* The positions of the "get" events of a step.
Gets(es) == {i \in 1..Len(es) : es[i].t = "get"}

\* A full zone refresh of object o started in the step: inside
\* Controller._initialize or for a zones-changed notification.
ZonesRefreshStarted(es, o) ==
    \/ Began(es, "run", "init_system_ok", o)
    \/ Began(es, "run", "changed", o) /\ \E i \in Gets(es) : es[i].k # "SystemSettings"

\* C33: a full zone refresh of a controller with N zones issues exactly one
\* request per group of four below N (ceil(N/4) requests), also when the cached
\* zone total differs from N; a zone group response that is accepted puts
\* element (i mod 4) of the response for group floor(i/4) into zone i; and the
\* number of zones of an initialised controller never changes.
C33_OneRequestPerGroup ==
    [][\A o \in Slots :
          /\ ZonesRefreshStarted(ev', o) =>
                LET N == Len(ctrl'[o].zones)
                IN /\ {ev'[i].k : i \in Gets(ev')} = {ZoneResource(g) : g \in ZoneGroups(N)}
                   /\ Cardinality(Gets(ev')) = (N + 3) \div 4
          /\ \A g \in {0, 4, 8} :
                /\ ev' # << >> /\ ev'[1] = EvZ("run", "", "zone_group_ok", o, g)
                /\ ctrl'[o].live
                /\ IndexMismatch(ctrl[o], g, ZoneGroupResponse(dev[ctrl[o].uid], g)) = {}
                => \A i \in 0..(Len(ctrl[o].zones) - 1) :
                      ctrl'[o].zones[i + 1] =
                         IF i \div 4 = g \div 4
                         THEN ZoneGroupResponse(dev[ctrl[o].uid], g)[(i % 4) + 1]
                         ELSE ctrl[o].zones[i + 1]
          /\ ctrl[o].initialised /\ ctrl'[o].live =>
                Len(ctrl'[o].zones) = Len(ctrl[o].zones)]_vars

(* --------------------------- zone index mismatch ----------------------- *)

\* The response for group g arrived for object o in the step.
GroupArrived(es, o, g) == es # << >> /\ es[1] = EvZ("run", "", "zone_group_ok", o, g)

\* The zones of object o for which the device's answer for group g carries an
\* index that is not the zone's.
WrongIndex(o, g) ==
    {z \in 0..(Len(ctrl[o].zones) - 1) :
        /\ z \div 4 = g \div 4
        /\ ZoneGroupResponse(dev[ctrl[o].uid], g)[(z % 4) + 1].Index # ctrl[o].zones[z + 1].Index}

\* The refreshes of object o among the tasks ts that have not failed.
Refreshing(ts, o) ==
    [t \in {u \in BagToSet(ts) : u.o = o /\ u.kind # "stray"} |-> CopiesIn(t, ts)]

\* The requests of failed refreshes of object o that are still under way.
StrayLegs(ts, o) ==
    [t \in {u \in BagToSet(ts) : u.o = o /\ u.kind = "stray"} |-> CopiesIn(t, ts)]

\* AttributeError is raised for object o in the step es.
RaisesAttributeError(es, o) ==
    \E i \in 1..Len(es) : es[i].t = "raise" /\ es[i].k = "AttributeError" /\ es[i].o = o

\* C34: when a zone group response carries an index that is not the index of
\* the zone in that slot, the refresh it belongs to ends in that step with
\* AttributeError raised out of it, the other refreshes of the controller
\* going on (when the response belongs to a refresh that failed before, that
\* refresh stays failed and nothing more is raised); none of the listeners
\* is told about that zone, and the zone keeps its index and its cached
\* settings.
C34_IndexMismatchPropagates ==
    [][\A o \in Slots, g \in {0, 4, 8} :
          GroupArrived(ev', o, g) /\ WrongIndex(o, g) # {} =>
             /\ \/ /\ RaisesAttributeError(ev', o)
                   /\ BagCardinality(Refreshing(tasks', o)) = BagCardinality(Refreshing(tasks, o)) - 1
                \/ /\ ~RaisesAttributeError(ev', o)
                   /\ Refreshing(tasks', o) = Refreshing(tasks, o)
                   /\ StrayLegs(tasks', o) # StrayLegs(tasks, o)
             /\ \A i \in 1..Len(ev') : ev'[i].t = "cb" => ev'[i].k = "zone_update"
             /\ \A z \in WrongIndex(o, g) :
                   /\ \A i \in 1..Len(ev') : ev'[i].t = "cb" => ev'[i].z # z
                   /\ ctrl'[o].live => ctrl'[o].zones[z + 1] = ctrl[o].zones[z + 1]]_vars

\* The answer for the first group carried a wrong index for zone 1 after zone
\* 0 was closed at the device: zone 0 was refreshed and its listener told, the
\* refresh raised at zone 1, which is as it was.
C34_RaisedAtZoneOne ==
    /\ ev = <<EvZ("run", "", "zone_group_ok", 1, 0),
              EvZ("cb", "l1", "zone_update", 1, 0),
              EvZ("raise", "", "AttributeError", 1, 1)>>
    /\ ctrl[1].zones[1].Mode = "close"
    /\ ctrl[1].zones[2] = DeviceZone(1)
    /\ dev["000000001"].zones[2].Index = 2

(* ------------------- disconnected / reconnected alternate -------------- *)

\* C35: for every controller object, the controller_disconnected and
\* controller_reconnected notifications a listener gets alternate, starting
\* with controller_disconnected: a step delivers at most one of the two,
\* controller_disconnected only when as many controller_reconnected as
\* controller_disconnected were delivered for the object before, and
\* controller_reconnected only when one controller_disconnected is unmatched.
C35_DisconnectedReconnectedAlternate ==
    [][\A o \in Slots :
          /\ CountCb(ev', "disconnected", o) + CountCb(ev', "reconnected", o) <= 1
          /\ CountCb(ev', "disconnected", o) = 1 => pend[o] = 0 /\ pend'[o] = 1
          /\ CountCb(ev', "reconnected", o) = 1 => pend[o] = 1 /\ pend'[o] = 0]_vars

(* ----------------------- concurrent reconnections ---------------------- *)

\* The identifiers of the registered controllers whose failure reason is set.
FailedRegistered(cs) == {cs[o].uid : o \in {p \in Slots : Registered(p) /\ cs[p].fail # None}}

\* C36: no reconnection attempt ends with an exception raised out of its
\* task, and after every step the service's set of disconnected controllers is
\* the set of the registered controllers whose failure reason is set.
C36_ReconnectionTasksEndCleanly ==
    [][/\ \A o \in Slots :
             Began(ev', "run", "retry_finish", o) =>
                \A i \in 1..Len(ev') : ev'[i].t # "raise"
       /\ controllers' = controllers => disconnected' = FailedRegistered(ctrl')]_vars

(* ------------------------ no discovery after close --------------------- *)

\* C37: once close() has been called, no step adds a controller to the
\* registry or delivers controller_discovered.
C37_NoDiscoveryAfterClose ==
    [][scan.close_task # "" =>
          /\ controllers' = controllers
          /\ \A i \in 1..Len(ev') : ev'[i].t = "cb" => ev'[i].k # "discovered"]_vars

(* -------------------- controller_discovered at most once --------------- *)

\* C38: a listener does not get controller_discovered twice for the same
\* controller: the replay add_listener scheduled for a listener that is still
\* registered reports only controllers that were in the registry when
\* add_listener was called (a controller registered since then was reported
\* to the listener by the fan-out of its initialization), each of them once.
C38_DiscoveredOncePerListener ==
    [][soon # << >> /\ Head(soon).k = "replay" /\ Began(ev', "run", "replay", 0)
          /\ Head(soon).l \in Range(listeners) =>
          \A o \in Slots :
             /\ CountCbOf(ev', Head(soon).l, "discovered", o) <= 1
             /\ CountCbOf(ev', Head(soon).l, "discovered", o) = 1 =>
                   \E i \in 1..Len(Head(soon).seen) : Head(soon).seen[i][2] = o]_vars

(* ----------------------- exceptions of listeners ----------------------- *)

\* The callbacks of the step es that ended with an exception.
RaisedCallbacks(es) == {i \in 1..Len(es) : es[i].t = "cb" /\ es[i].v = "raised"}

\* The callbacks of kind k about controller o and zone z that the listener l
\* received in the step es.
ReceivedSame(es, l, e) ==
    Cardinality({i \in 1..Len(es) : /\ es[i].t = "cb" /\ es[i].l = l
                                    /\ es[i].k = e.k /\ es[i].o = e.o /\ es[i].z = e.z})

\* The steps that fan a notification out (the callback of add_listener is
\* not one of them).
FansOut(es) == \A i \in 1..Len(es) : ~(es[i].t = "run" /\ es[i].k = "replay")

\* C39: in every step that fans out a notification in which a listener's
\* callback raises, nothing is raised out of the step on account of the
\* listener, and every listener after the raising one in _listeners receives
\* the same notification, as often as the raising one did.
C39_ListenerExceptionsContained ==
    [][(FansOut(ev') /\ RaisedCallbacks(ev') # {}) =>
          /\ \A i \in 1..Len(ev') : ~(ev'[i].t = "raise" /\ ev'[i].k = "Exception")
          /\ \A i \in RaisedCallbacks(ev') : \A j \in 1..Len(listeners') :
                ReceivedSame(ev', listeners'[j], ev'[i]) = ReceivedSame(ev', ev'[i].l, ev'[i])]_vars

\* A listener raised in controller_reconnected and the listener after it in
\* _listeners received controller_reconnected for the same controller.
C39_RaisedAndDelivered ==
    /\ FansOut(ev)
    /\ \E i \in RaisedCallbacks(ev) :
          /\ ev[i].k = "reconnected"
          /\ i < Len(ev) /\ ev[i + 1].t = "cb" /\ ev[i + 1].l = "l2"
          /\ ev[i + 1].k = "reconnected" /\ ev[i + 1].o = ev[i].o

(* --------------------------- the sending lock -------------------------- *)

\* The controller setters of object o that are inside `async with
\* self._sending_lock` in the calls cs.
InsideLock(cs, o) ==
    {k \in BagToSet(cs) : k.o = o /\ k.z = -1 /\ k.pc \in {"send", "refetch"}}

\* The controller setters of object o in flight in the calls cs.
SettersInFlight(cs, o) == {k \in BagToSet(cs) : k.o = o /\ k.z = -1}

\* The controller setters of object o that wait for the lock.
WaitingForLock(o) == {k \in BagToSet(calls) : k.o = o /\ k.pc = "lock"}

\* C40: _sending_lock is held only while a controller setter is between its
\* command and the end of its re-fetch, and a step in which that setter leaves
\* the block (the command failed, or the re-fetch succeeded or failed) leaves
\* the lock free; when every request completes or times out a held lock is
\* released, a setter that waits for the lock gets it also when the write
\* before it failed, and every controller setter in flight returns.
C40_SendingLockReleased ==
    /\ [][\A o \in Slots :
            /\ ctrl'[o].locked => InsideLock(calls', o) # {}
            /\ (InsideLock(calls, o) # {} /\ InsideLock(calls', o) = {}) => ~ctrl'[o].locked]_vars
    /\ \A o \in Slots :
          /\ ctrl[o].locked ~> ~ctrl[o].locked
          /\ (WaitingForLock(o) # {}) ~> (WaitingForLock(o) = {})
          /\ (SettersInFlight(calls, o) # {}) ~> (SettersInFlight(calls, o) = {})

\* The command of a controller setter has just timed out: the setter raised
\* ConnectionError, the lock is free, and a later write of the same controller
\* that waited for it is about to get it.
C40_ReleasedAfterFailedWrite ==
    /\ ev # << >> /\ ev[1].t = "fail" /\ ev[1].k = "send_fail" /\ ev[1].v = "TimeoutError"
    /\ ev[Len(ev)] = Ev("raise", "", "ConnectionError", ev[1].o)
    /\ ~ctrl[ev[1].o].locked
    /\ WaitingForLock(ev[1].o) # {}
    /\ ENABLED AcquireLock(ev[1].o)


====
